---------------------------- MODULE Spec2Model ----------------------------
(***************************************************************************)
(* Behavioural risk-scoring engine of honeypot-auth: BotDetector           *)
(* (src/unnamed/part_002), MouseInteractionDetector                        *)
(* (src/js/detectors/mouseInteraction.js) and RemoteDesktopDetector        *)
(* (src/js/detectors/remoteDesktopDetector.js).                            *)
(*                                                                         *)
(* JavaScript numbers are modelled as exact rationals [n, d] with d > 0,   *)
(* extended by the three non-finite IEEE values (d = 0): NaN, Infinity     *)
(* and -Infinity.  Mouse samples are drawn from axis-aligned gestures so   *)
(* that Math.sqrt and Math.atan2 are exact.                                *)
(***************************************************************************)
EXTENDS Integers, Sequences, FiniteSets, TLC

(***************************************************************************)
(* Bounds of the model                                                     *)
(***************************************************************************)
MaxEvents == 22        \* mousemove events dispatched in one behaviour of Spec
MaxPattern == 2        \* length of the gesture pattern the pointer repeats
MaxRemoteMoves == 48   \* mousemove events in one behaviour of SpecRemote
MaxClicks == 3         \* clicks in one behaviour of SpecRemote
MaxKeys == 6           \* keystrokes in one behaviour of SpecRemote
StrokeLength == 24     \* mousemove events between two clicks or keystrokes

(***************************************************************************)
(* JavaScript numbers                                                      *)
(***************************************************************************)
RECURSIVE Gcd(_, _)
Gcd(a, b) == IF b = 0 THEN a ELSE Gcd(b, a % b)

Abs(i) == IF i < 0 THEN -i ELSE i

NaN == [n |-> 0, d |-> 0]
Infinity == [n |-> 1, d |-> 0]
NegInfinity == [n |-> -1, d |-> 0]

\* the rational n/d in lowest terms; n/0 is NaN, Infinity or -Infinity
Rat(n, d) ==
    IF d = 0 THEN [n |-> (IF n > 0 THEN 1 ELSE IF n < 0 THEN -1 ELSE 0), d |-> 0]
    ELSE LET s == IF d < 0 THEN -1 ELSE 1
             g == Gcd(Abs(n), Abs(d))
         IN  [n |-> (s * n) \div g, d |-> (s * d) \div g]

Num(i) == [n |-> i, d |-> 1]
Zero == Num(0)
One == Num(1)

IsNaN(a) == a.d = 0 /\ a.n = 0
IsFinite(a) == a.d > 0

\* a < b, false as soon as one side is NaN
Lt(a, b) ==
    /\ ~IsNaN(a)
    /\ ~IsNaN(b)
    /\ IF IsFinite(a) /\ IsFinite(b)
       THEN LET g == Gcd(a.d, b.d) IN a.n * (b.d \div g) < b.n * (a.d \div g)
       ELSE IF IsFinite(a) THEN b.n > 0
       ELSE IF IsFinite(b) THEN a.n < 0
       ELSE a.n < b.n
Gt(a, b) == Lt(b, a)
Le(a, b) == ~IsNaN(a) /\ ~IsNaN(b) /\ (a = b \/ Lt(a, b))
Ge(a, b) == Le(b, a)

\* Math.min, Math.max: NaN if either argument is NaN
MathMin(a, b) == IF IsNaN(a) \/ IsNaN(b) THEN NaN ELSE IF Lt(b, a) THEN b ELSE a
MathMax(a, b) == IF IsNaN(a) \/ IsNaN(b) THEN NaN ELSE IF Lt(a, b) THEN b ELSE a

Add(a, b) ==
    IF IsNaN(a) \/ IsNaN(b) THEN NaN
    ELSE IF IsFinite(a) /\ IsFinite(b)
    THEN LET g == Gcd(a.d, b.d)
         IN  Rat(a.n * (b.d \div g) + b.n * (a.d \div g), (a.d \div g) * b.d)
    ELSE IF IsFinite(a) THEN b
    ELSE IF IsFinite(b) THEN a
    ELSE IF a = b THEN a ELSE NaN
Neg(a) == [n |-> -a.n, d |-> a.d]
Sub(a, b) == Add(a, Neg(b))
Mul(a, b) ==
    IF IsNaN(a) \/ IsNaN(b) THEN NaN
    ELSE IF IsFinite(a) /\ IsFinite(b)
    THEN LET g == Gcd(Abs(a.n), b.d)
             h == Gcd(Abs(b.n), a.d)
         IN  Rat((a.n \div g) * (b.n \div h), (a.d \div h) * (b.d \div g))
    ELSE IF a.n = 0 \/ b.n = 0 THEN NaN
    ELSE IF (a.n > 0) = (b.n > 0) THEN Infinity ELSE NegInfinity
\* a / b: x/0 is +-Infinity, 0/0 is NaN
Div(a, b) ==
    IF IsNaN(a) \/ IsNaN(b) THEN NaN
    ELSE IF IsFinite(a) /\ IsFinite(b) THEN
         IF b.n = 0 THEN Rat(a.n, 0)
         ELSE LET g == Gcd(Abs(a.n), Abs(b.n))
                  h == Gcd(a.d, b.d)
              IN  Rat((a.n \div g) * (b.d \div h), (a.d \div h) * (b.n \div g))
    ELSE IF ~IsFinite(a) /\ ~IsFinite(b) THEN NaN
    ELSE IF IsFinite(a) THEN Zero
    ELSE IF b.n >= 0 THEN a ELSE Neg(a)
MathAbs(a) == [n |-> Abs(a.n), d |-> a.d]

\* Math.sqrt on the perfect squares the gestures produce
Sqrt(i) == CHOOSE r \in 0..i : r * r = i

\* Math.atan2(dy, dx) * 180 / Math.PI for the axis-aligned displacements
Atan2Deg(dy, dx) ==
    CASE dy = 0 /\ dx >= 0 -> 0
      [] dy = 0 /\ dx < 0 -> 180
      [] dx = 0 /\ dy > 0 -> 90
      [] dx = 0 /\ dy < 0 -> -90

\* Math.round(a) of a finite number: floor(a + 1/2); NaN stays NaN
MathRound(a) ==
    IF ~IsFinite(a) THEN a ELSE Num((2 * a.n + a.d) \div (2 * a.d))

\* a JavaScript boolean, in a field that is undefined until it is assigned
Boolean(b) == IF b THEN "true" ELSE "false"

\* adds w to the running score when the test fired
Fired(test, w) == IF test THEN w ELSE Zero

(***************************************************************************)
(* State                                                                   *)
(***************************************************************************)
VARIABLES
    mouseData,          \* BotDetector.mouseData
    suspiciousPatterns, \* BotDetector.suspiciousPatterns
    detectionScores,    \* BotDetector.detectionScores
    botData,            \* BotDetector.botData
    permissionsProbe,   \* the navigator.permissions.query promise and its closure
    display,            \* what BotDetector has put on the page
    env,                \* the browser environment detect() runs in
    now,                \* Date.now()
    stream,             \* the pointer stream: its pattern, the events dispatched
    interaction,        \* MouseInteractionDetector.mouseData
    remote,             \* RemoteDesktopDetector: mouse tracking fields and results
    history,            \* every mousemove event dispatched so far, and those
                        \* among them that moved the pointer
    eventTiming         \* APIFingerprintDetector: the event-timing monitor

\* the state of the two other mousemove listeners, the event log and the
\* event-timing observer
listeners == <<interaction, remote, history, eventTiming>>

\* the exception that left the last setInterval callback uncaught ("none"
\* when the callback returned)
VARIABLE uncaught

vars == <<mouseData, suspiciousPatterns, detectionScores, botData,
          permissionsProbe, display, env, now, stream, listeners, uncaught>>

(***************************************************************************)
(* BotDetector: configuration (constructor)                                *)
(***************************************************************************)
minimumSamples == 20
maxSamples == 100
\* thresholds, as rationals
perfectPatternThreshold == Rat(97, 100)
velocityVariance == Rat(5, 100)
angleVariance == 8
humanScoreThreshold == Rat(3, 10)
suspiciousScoreThreshold == Rat(5, 10)
botScoreThreshold == Rat(7, 10)

\* Object.entries(this.scoreWeights): the keys in declaration order
ScoreWeightKeys ==
    <<"mousePatterns", "headlessBrowser", "fakeUserAgent", "unusualResolution",
      "rdpDetection", "fingerprinting", "apiFingerprint", "eventTimingPatterns">>

scoreWeights ==
    [mousePatterns |-> Rat(25, 100), headlessBrowser |-> Rat(15, 100),
     fakeUserAgent |-> Rat(15, 100), unusualResolution |-> Rat(10, 100),
     rdpDetection |-> Rat(10, 100), fingerprinting |-> Rat(15, 100),
     apiFingerprint |-> Rat(10, 100), eventTimingPatterns |-> Rat(15, 100)]

InitMouseData ==
    [movements |-> 0, positions |-> <<>>, timestamps |-> <<>>,
     velocities |-> <<>>, angles |-> <<>>,
     minX |-> Infinity, maxX |-> NegInfinity,
     minY |-> Infinity, maxY |-> NegInfinity,
     sumX |-> 0, sumY |-> 0,
     minVelocity |-> Infinity, maxVelocity |-> NegInfinity, sumVelocity |-> Zero,
     minAngle |-> Infinity, maxAngle |-> NegInfinity, sumAngle |-> 0,
     lastMovementTime |-> 0, timeBetweenMovements |-> <<>>,
     minTimeBetween |-> Infinity, maxTimeBetween |-> NegInfinity,
     sumTimeBetween |-> 0]

InitSuspiciousPatterns ==
    [perfectStraightLines |-> 0, consistentVelocity |-> FALSE,
     consistentAngles |-> FALSE, consistentTimeBetween |-> FALSE,
     unnaturalMovement |-> FALSE]

InitDetectionScores ==
    [mousePatterns |-> Zero, headlessBrowser |-> Zero, fakeUserAgent |-> Zero,
     unusualResolution |-> Zero, rdpDetection |-> Zero, fingerprinting |-> Zero,
     apiFingerprint |-> Zero, eventTimingPatterns |-> Zero, overallScore |-> Zero]

(***************************************************************************)
(* BotDetector: the mousemove listener                                     *)
(***************************************************************************)
Last(s) == s[Len(s)]
\* Array.prototype.pop: drops the last element
Pop(s) == IF s = <<>> THEN s ELSE SubSeq(s, 1, Len(s) - 1)

\* Array.prototype.shift: drops the first element, a no-op on an empty array
Shift(s) == IF s = <<>> THEN s ELSE Tail(s)

\* the listener body: mouseData after a mousemove at (x, y) stamped `timestamp`
OnMouseMove(md, x, y, timestamp) ==
    LET timeDiff == timestamp - md.lastMovementTime
        recTime == md.lastMovementTime > 0 /\ timeDiff > 0
        hasPrev == Len(md.positions) > 0
        prevPosition == Last(md.positions)
        prevTimestamp == Last(md.timestamps)
        dx == x - prevPosition.x
        dy == y - prevPosition.y
        distance == Sqrt(dx * dx + dy * dy)
        timeDelta == timestamp - prevTimestamp
        recVel == hasPrev /\ timeDelta > 0
        velocity == Rat(distance, timeDelta)
        recAngle == hasPrev /\ distance > 0
        angle == Atan2Deg(dy, dx)
        absAngle == Abs(angle)
        \* after the pushes
        positions1 == Append(md.positions, [x |-> x, y |-> y])
        timestamps1 == Append(md.timestamps, timestamp)
        velocities1 == IF recVel THEN Append(md.velocities, velocity)
                       ELSE md.velocities
        angles1 == IF recAngle THEN Append(md.angles, angle) ELSE md.angles
        times1 == IF recTime THEN Append(md.timeBetweenMovements, timeDiff)
                  ELSE md.timeBetweenMovements
        over == Len(positions1) > maxSamples
    IN  [md EXCEPT
           !.movements = @ + 1,
           !.minX = MathMin(@, Num(x)), !.maxX = MathMax(@, Num(x)),
           !.minY = MathMin(@, Num(y)), !.maxY = MathMax(@, Num(y)),
           !.sumX = @ + x, !.sumY = @ + y,
           !.minTimeBetween = IF recTime THEN MathMin(@, Num(timeDiff)) ELSE @,
           !.maxTimeBetween = IF recTime THEN MathMax(@, Num(timeDiff)) ELSE @,
           !.sumTimeBetween = IF recTime THEN @ + timeDiff ELSE @,
           !.lastMovementTime = timestamp,
           !.minVelocity = IF recVel THEN MathMin(@, velocity) ELSE @,
           !.maxVelocity = IF recVel THEN MathMax(@, velocity) ELSE @,
           !.sumVelocity = IF recVel THEN Add(@, velocity) ELSE @,
           !.minAngle = IF recAngle THEN MathMin(@, Num(absAngle)) ELSE @,
           !.maxAngle = IF recAngle THEN MathMax(@, Num(absAngle)) ELSE @,
           !.sumAngle = IF recAngle THEN @ + absAngle ELSE @,
           !.positions = IF over THEN Shift(positions1) ELSE positions1,
           !.timestamps = IF over THEN Shift(timestamps1) ELSE timestamps1,
           !.velocities = IF over THEN Shift(velocities1) ELSE velocities1,
           !.angles = IF over THEN Shift(angles1) ELSE angles1,
           !.timeBetweenMovements = IF over THEN Shift(times1) ELSE times1]


(***************************************************************************)
(* BotDetector: pattern analysis                                           *)
(***************************************************************************)
\* distance between positions[i] and positions[i-1] (JS indices)
SegmentDistance(md, i) ==
    LET p == md.positions[i + 1]
        q == md.positions[i]
    IN  Sqrt((p.x - q.x) * (p.x - q.x) + (p.y - q.y) * (p.y - q.y))

\* the test both loops apply at JS index i: a significant movement whose
\* angle continues the previous one
IsStraightStep(md, i) ==
    LET diff == Abs(md.angles[i + 1] - md.angles[i])
    IN  /\ SegmentDistance(md, i) > 10
        /\ (diff < angleVariance \/ diff > 180 - angleVariance)

\* straightLineCount of _analyzeForBotPatterns: the loop over i = 1 .. length-1
StraightLineCount(md) ==
    Cardinality({i \in 1..(Len(md.angles) - 1) : IsStraightStep(md, i)})

AvgVelocity(md) ==
    IF Len(md.velocities) > 0
    THEN Div(md.sumVelocity, Num(Len(md.velocities))) ELSE Zero

_analyzeForBotPatterns(md, sp) ==
    LET avgVelocity == AvgVelocity(md)
        checkVelocity == Gt(md.minVelocity, Zero) /\ Gt(avgVelocity, Zero)
        velocityRatio == Div(md.minVelocity, md.maxVelocity)
        hasAngles == Len(md.angles) > 0
        straightLineCount == StraightLineCount(md)
        \* straightLinePercentage > 45 && angles.length >= 50
        flagged == /\ straightLineCount * 100 > 45 * Len(md.angles)
                   /\ Len(md.angles) >= 50
        hasTimes == Len(md.timeBetweenMovements) > 0
        timeRatio == Div(md.minTimeBetween, md.maxTimeBetween)
        normalizedDiff ==
            Div(MathAbs(Sub(md.maxVelocity, md.minVelocity)), avgVelocity)
    IN  [sp EXCEPT
           !.consistentVelocity =
               IF checkVelocity THEN Gt(velocityRatio, perfectPatternThreshold)
               ELSE @,
           !.consistentAngles = IF hasAngles THEN flagged ELSE @,
           !.perfectStraightLines =
               IF ~hasAngles THEN @
               ELSE IF flagged THEN straightLineCount
               ELSE IF sp.consistentAngles THEN 0 ELSE @,
           !.consistentTimeBetween =
               IF hasTimes THEN Gt(timeRatio, perfectPatternThreshold) ELSE @,
           !.unnaturalMovement =
               IF checkVelocity THEN Lt(normalizedDiff, velocityVariance) ELSE @]

\* 1 - Math.min((max - min) / (max + min) * 2, 1)
SpreadScore(min, max) ==
    Sub(One, MathMin(Mul(Div(Sub(max, min), Add(max, min)), Num(2)), One))

\* one iteration of the consecutive-run loop of _calculateBotLikelihood, at JS
\* index i
ConsecutiveStep(md, i, acc) ==
    LET distance == SegmentDistance(md, i)
        timeDelta == md.timestamps[i + 1] - md.timestamps[i]
        speed == IF timeDelta > 0 THEN Rat(distance, timeDelta) ELSE Zero
        straight == IsStraightStep(md, i)
        count == IF straight THEN acc.consecutiveCount + 1 ELSE 0
    IN  [consecutiveCount |-> count,
         maxConsecutive |->
             IF straight /\ count > acc.maxConsecutive
             THEN count ELSE acc.maxConsecutive,
         isHighSpeedSequence |->
             acc.isHighSpeedSequence \/ (straight /\ Gt(speed, Rat(1, 2))),
         totalDistance |-> acc.totalDistance + distance]

\* the loop over the JS indices lo .. hi in order, the range halved at each
\* step and the first half finished before the second starts
RECURSIVE ConsecutiveRun(_, _, _, _)
ConsecutiveRun(md, lo, hi, acc) ==
    IF lo > hi THEN acc
    ELSE IF lo = hi THEN ConsecutiveStep(md, lo, acc)
    ELSE LET mid == (lo + hi) \div 2
             firstHalf == ConsecutiveRun(md, lo, mid, acc)
         IN  IF firstHalf.consecutiveCount >= 0
             THEN ConsecutiveRun(md, mid + 1, hi, firstHalf)
             ELSE acc

\* maxConsecutive, isHighSpeedSequence and totalDistance when the loop ends
ConsecutiveRunOf(md) ==
    ConsecutiveRun(md, 1, Len(md.angles) - 1,
        [consecutiveCount |-> 0, maxConsecutive |-> 0,
         isHighSpeedSequence |-> FALSE, totalDistance |-> 0])

\* a variant that scores a run only when length, speed and distance are all
\* over their thresholds
JointRunScore(r) ==
    IF r.maxConsecutive >= 20 /\ r.isHighSpeedSequence /\ r.totalDistance > 500
    THEN Rat(9, 10)
    ELSE Zero

\* consecutiveScore from the run the loop found
RunScore(r) ==
    IF r.maxConsecutive >= 20 /\ r.isHighSpeedSequence /\ r.totalDistance > 500
    THEN Rat(9, 10)
    ELSE IF r.maxConsecutive >= 15 /\ r.isHighSpeedSequence THEN Rat(7, 10)
    ELSE IF r.maxConsecutive >= 25 THEN Rat(5, 10)
    ELSE Zero

ConsecutiveScore(md) == RunScore(ConsecutiveRunOf(md))

AngleScore(md, sp) ==
    IF sp.consistentAngles
    THEN LET straightLines == sp.perfectStraightLines
             len == Len(md.angles)
         IN  IF straightLines * 100 > 60 * len /\ len >= 50 THEN Rat(8, 10)
             ELSE IF straightLines * 100 > 45 * len /\ len >= 50 THEN Rat(5, 10)
             ELSE Rat(3, 10)
    ELSE Zero

\* the value written to detectionScores.mousePatterns
_calculateBotLikelihood(md, sp) ==
    LET useVelocity == Len(md.velocities) > 0
        useAngles == Len(md.angles) > 0
        useTiming == Len(md.timeBetweenMovements) > 0
        useRuns == Len(md.angles) > minimumSamples
        velocityScore == IF sp.consistentVelocity THEN One
                         ELSE SpreadScore(md.minVelocity, md.maxVelocity)
        timingScore == IF sp.consistentTimeBetween THEN One
                       ELSE SpreadScore(md.minTimeBetween, md.maxTimeBetween)
        \* score += ... under each `if`; a factor that is not checked adds 0
        score ==
            Add(Add(Add(IF useVelocity THEN velocityScore ELSE Zero,
                        IF useAngles THEN AngleScore(md, sp) ELSE Zero),
                    IF useTiming THEN timingScore ELSE Zero),
                IF useRuns THEN ConsecutiveScore(md) ELSE Zero)
        factorsChecked ==
            (IF useVelocity THEN 1 ELSE 0) + (IF useAngles THEN 1 ELSE 0)
            + (IF useTiming THEN 1 ELSE 0) + (IF useRuns THEN 1 ELSE 0)
    IN  IF factorsChecked > 0 THEN Div(score, Num(factorsChecked)) ELSE Zero

(***************************************************************************)
(* BotDetector: the weighted score aggregator and the classifier           *)
(***************************************************************************)
\* the for-of loop over Object.entries(scoreWeights), from index i of `keys`;
\* every key of detectionScores is defined from the constructor on, so the
\* `!== undefined` test passes for each of them
\* a variant whose test is the truth of the score: a score of 0 is skipped
RECURSIVE AccumulateTruthyScores(_, _, _, _)
AccumulateTruthyScores(keys, scores, i, acc) ==
    IF i > Len(keys) THEN acc
    ELSE AccumulateTruthyScores(keys, scores, i + 1,
            IF scores[keys[i]] = Zero THEN acc
            ELSE [weightedScore |->
                      Add(acc.weightedScore, Mul(scores[keys[i]], scoreWeights[keys[i]])),
                  totalWeight |-> Add(acc.totalWeight, scoreWeights[keys[i]])])

RECURSIVE AccumulateScores(_, _, _, _)
AccumulateScores(keys, scores, i, acc) ==
    IF i > Len(keys) THEN acc
    ELSE AccumulateScores(keys, scores, i + 1,
            [weightedScore |->
                 Add(acc.weightedScore, Mul(scores[keys[i]], scoreWeights[keys[i]])),
             totalWeight |-> Add(acc.totalWeight, scoreWeights[keys[i]])])

\* a variant that blends the previous overall score into the new one
SmoothedOverallScore(scores) ==
    LET loop == AccumulateScores(ScoreWeightKeys, scores, 1,
                    [weightedScore |-> Zero, totalWeight |-> Zero])
    IN  Div(Add(scores.overallScore, Div(loop.weightedScore, loop.totalWeight)),
            Num(2))

\* the value written to detectionScores.overallScore
_calculateOverallScore(scores) ==
    LET loop == AccumulateScores(ScoreWeightKeys, scores, 1,
                    [weightedScore |-> Zero, totalWeight |-> Zero])
        \* "Add event timing score if available": a second time
        weightedScore ==
            Add(loop.weightedScore,
                Mul(scores.eventTimingPatterns, scoreWeights.eventTimingPatterns))
        totalWeight == Add(loop.totalWeight, scoreWeights.eventTimingPatterns)
    IN  IF Gt(totalWeight, Zero) THEN Div(weightedScore, totalWeight) ELSE Zero

\* a variant whose cut points are exclusive
ExclusiveBotStatusLabel(md, score) ==
    IF md.movements < minimumSamples THEN "Insufficient data"
    ELSE IF Gt(score, botScoreThreshold) THEN "Highly likely to be a bot"
    ELSE IF Gt(score, suspiciousScoreThreshold) THEN "Suspicious patterns detected"
    ELSE IF Gt(score, humanScoreThreshold) THEN "Some unusual patterns"
    ELSE "Likely human"

_getBotStatusLabel(md, score) ==
    IF md.movements < minimumSamples THEN "Insufficient data"
    ELSE IF Ge(score, botScoreThreshold) THEN "Highly likely to be a bot"
    ELSE IF Ge(score, suspiciousScoreThreshold) THEN "Suspicious patterns detected"
    ELSE IF Ge(score, humanScoreThreshold) THEN "Some unusual patterns"
    ELSE "Likely human"

\* the score circle and label _updateUI puts on the page
_updateUI(scores) ==
    LET botScorePercentage == MathRound(Mul(scores.overallScore, Num(100)))
    IN  [scoreCircle |-> <<botScorePercentage>>,
         scoreLabel |->
             IF Gt(botScorePercentage, Num(70)) THEN "Likely bot"
             ELSE IF Gt(botScorePercentage, Num(30)) THEN "Suspicious behavior"
             ELSE "Likely human"]

\* the page after _updateUI() has set the score circle and its label
ShowScore(disp, ui) ==
    [disp EXCEPT !.scoreCircle = ui.scoreCircle, !.scoreLabel = ui.scoreLabel]

(***************************************************************************)
(* MouseInteractionDetector: the mousemove listener                        *)
(***************************************************************************)
InitInteractionData ==
    [movements |-> 0, positions |-> <<>>, timestamps |-> <<>>,
     minX |-> Infinity, maxX |-> NegInfinity,
     minY |-> Infinity, maxY |-> NegInfinity,
     sumX |-> 0, sumY |-> 0,
     velocities |-> <<>>,
     minVelocity |-> Infinity, maxVelocity |-> NegInfinity, sumVelocity |-> Zero,
     lastMovementTime |-> 0, timeBetweenMovements |-> <<>>,
     minTimeBetween |-> Infinity, maxTimeBetween |-> NegInfinity,
     sumTimeBetween |-> 0,
     isMouseInViewport |-> FALSE, mouseEntryCount |-> 0, viewportEntryTime |-> 0,
     straightLineSegments |-> 0, curvedLineSegments |-> 0,
     velocityConsistencyScores |-> <<>>, accelerationPatterns |-> <<>>,
     movementAngles |-> <<>>,
     remoteAccessScore |-> 0, remoteSuspicionReasons |-> <<>>]

interactionMaxSamples == 200

\* Math.exp(a) for a <= 0, as 1 / (1 + y + y^2/2 + y^3/6) with y = -a:
\* exactly 1 at 0, decreasing, within 0.03 of e^a
MathExp(a) ==
    LET y == Neg(a)
        y2 == Mul(y, y)
    IN  Div(One, Add(Add(One, y),
                     Add(Div(y2, Num(2)), Div(Mul(y2, y), Num(6)))))

RECURSIVE SumRange(_, _, _)
\* the sum of s[lo..hi], the range halved at each step
SumRange(s, lo, hi) ==
    IF lo > hi THEN Zero
    ELSE IF lo = hi THEN s[lo]
    ELSE LET mid == (lo + hi) \div 2
         IN  Add(SumRange(s, lo, mid), SumRange(s, mid + 1, hi))

\* array.reduce((sum, v) => sum + v, 0) from index i on
SumSeq(s, i) == SumRange(s, i, Len(s))

\* the population variance of an array of numbers about a given average
VarianceAbout(s, avg) ==
    Div(SumSeq([i \in 1..Len(s) |-> Mul(Sub(s[i], avg), Sub(s[i], avg))], 1),
        Num(Len(s)))

\* twice the area of the triangle p1 p2 p3
TwiceArea(p1, p2, p3) ==
    Abs(p1.x * (p2.y - p3.y) + p2.x * (p3.y - p1.y) + p3.x * (p1.y - p2.y))

SquaredDistance(p, q) == (q.x - p.x) * (q.x - p.x) + (q.y - p.y) * (q.y - p.y)

\* a variant whose threshold is 0: no area is below it
AreaBelowZero(p1, p2, p3) == TwiceArea(p1, p2, p3) < 0

\* area < Math.max(distance12, distance23) * 0.1, compared on the squares:
\* (10 * area)^2 < max(distance12^2, distance23^2)
IsNearlyCollinear(p1, p2, p3) ==
    LET maxSquared == IF SquaredDistance(p1, p2) > SquaredDistance(p2, p3)
                      THEN SquaredDistance(p1, p2) ELSE SquaredDistance(p2, p3)
    IN  25 * TwiceArea(p1, p2, p3) * TwiceArea(p1, p2, p3) < maxSquared

\* isCardinalAngle: within 5 degrees of 0, 90, 180 or 270
IsCardinalAngle(angle) ==
    LET normalized == ((angle % 360) + 360) % 360
    IN  \E cardinal \in {0, 90, 180, 270} :
            Abs(normalized - cardinal) < 5 \/ Abs(normalized - cardinal - 360) < 5

\* movementAngles.filter(isCardinalAngle).length
CardinalCount(angles) ==
    Cardinality({i \in 1..Len(angles) : IsCardinalAngle(angles[i])})

\* accelerationPatterns.filter(acc => Math.abs(acc) > 0.05).length
AbruptCount(accelerations) ==
    Cardinality({i \in 1..Len(accelerations) :
                    Gt(MathAbs(accelerations[i]), Rat(5, 100))})

\* a variant that adds to the score and pushes no reason
SilentSuspicion(points, reason) == [score |-> points, reasons |-> <<>>]

\* score += points; reasons.push(reason)
Suspicion(points, reason) == [score |-> points, reasons |-> <<reason>>]

\* a check that does not fire adds nothing
NoSuspicion == [score |-> 0, reasons |-> <<>>]

\* mouseData after _analyzeRemoteAccessPatterns()
_analyzeRemoteAccessPatterns(md) ==
    LET totalSegments == md.straightLineSegments + md.curvedLineSegments
        straightLineRatio == Rat(md.straightLineSegments, totalSegments)
        lines ==
            IF totalSegments > 10 /\ Gt(straightLineRatio, Rat(8, 10))
            THEN Suspicion(25, "Unusually high straight-line movement")
            ELSE IF totalSegments > 10 /\ Gt(straightLineRatio, Rat(65, 100))
            THEN Suspicion(15, "Elevated straight-line movement")
            ELSE NoSuspicion
        scores == md.velocityConsistencyScores
        avgConsistency == Div(SumSeq(scores, 1), Num(Len(scores)))
        consistency ==
            IF Len(scores) > 10 /\ Gt(avgConsistency, Rat(9, 10))
            THEN Suspicion(25, "Unusually consistent movement velocity")
            ELSE IF Len(scores) > 10 /\ Gt(avgConsistency, Rat(8, 10))
            THEN Suspicion(15, "Elevated movement velocity consistency")
            ELSE NoSuspicion
        times == md.timeBetweenMovements
        avg == Rat(md.sumTimeBetween, Len(times))
        variance == VarianceAbout([i \in 1..Len(times) |-> Num(times[i])], avg)
        \* stdDev / avg < r, compared on the squares: variance / avg^2 < r^2
        squaredRatio == Div(variance, Mul(avg, avg))
        timing ==
            IF Len(times) > 10 /\ Lt(squaredRatio, Rat(4, 100))
            THEN Suspicion(20, "Unusually consistent timing between movements")
            ELSE IF Len(times) > 10 /\ Lt(squaredRatio, Rat(16, 100))
            THEN Suspicion(10, "Somewhat consistent timing between movements")
            ELSE NoSuspicion
        latency ==
            IF Len(times) > 10 /\ Gt(avg, Num(30))
            THEN Suspicion(10, "Elevated movement latency")
            ELSE NoSuspicion
        angles == md.movementAngles
        cardinalRatio == Rat(CardinalCount(angles), Len(angles))
        cardinal ==
            IF Len(angles) > 10 /\ Gt(cardinalRatio, Rat(4, 10))
            THEN Suspicion(15, "High percentage of cardinal direction movements")
            ELSE NoSuspicion
        accelerations == md.accelerationPatterns
        abruptRatio ==
            Rat(AbruptCount(accelerations), Len(accelerations))
        abrupt ==
            IF Len(accelerations) > 10 /\ Gt(abruptRatio, Rat(6, 10))
            THEN Suspicion(15, "Unnatural acceleration pattern detected")
            ELSE NoSuspicion
        score == lines.score + consistency.score + timing.score + latency.score
                 + cardinal.score + abrupt.score
    IN  [md EXCEPT
           !.remoteAccessScore = IF score > 100 THEN 100 ELSE score,
           !.remoteSuspicionReasons =
               lines.reasons \o consistency.reasons \o timing.reasons
               \o latency.reasons \o cardinal.reasons \o abrupt.reasons]

\* shift() when the array is longer than the cap
ShiftIfOver(s, cap) == IF Len(s) > cap THEN Shift(s) ELSE s

\* the listener body: mouseData after a mousemove at (x, y) stamped `timestamp`
InteractionMouseMove(md, x, y, timestamp) ==
    IF md.positions # <<>> /\ Last(md.positions) = [x |-> x, y |-> y] THEN md
    ELSE
    LET position == [x |-> x, y |-> y]
        timeDiff == timestamp - md.lastMovementTime
        recTime == md.lastMovementTime > 0 /\ timeDiff > 0
        hasPrev == md.positions # <<>>
        prevPosition == Last(md.positions)
        prevTimestamp == Last(md.timestamps)
        dx == x - prevPosition.x
        dy == y - prevPosition.y
        distance == Sqrt(dx * dx + dy * dy)
        angle == Atan2Deg(dy, dx)
        timeDelta == timestamp - prevTimestamp
        recVel == hasPrev /\ timeDelta > 0
        velocity == Rat(distance, timeDelta)
        velocities == IF recVel THEN Append(md.velocities, velocity) ELSE md.velocities
        recAcc == recVel /\ Len(velocities) > 1
        acceleration == Div(Sub(velocity, velocities[Len(velocities) - 1]), Num(timeDelta))
        recConsistency == recVel /\ Len(velocities) > 2
        velocityHistory == SubSeq(velocities, Len(velocities) - 2, Len(velocities))
        avgVelocity == Div(SumSeq(velocityHistory, 1), Num(3))
        consistencyScore ==
            MathExp(Mul(Num(-10), VarianceAbout(velocityHistory, avgVelocity)))
        hasSegment == hasPrev /\ Len(md.positions) > 2
        straight == IsNearlyCollinear(md.positions[Len(md.positions) - 2],
                                      md.positions[Len(md.positions) - 1], position)
        over == Len(md.positions) + 1 > interactionMaxSamples
        keep(s) == IF over THEN ShiftIfOver(s, interactionMaxSamples) ELSE s
        tracked ==
          [md EXCEPT
            !.movements = @ + 1,
            !.minX = MathMin(@, Num(x)), !.maxX = MathMax(@, Num(x)),
            !.minY = MathMin(@, Num(y)), !.maxY = MathMax(@, Num(y)),
            !.sumX = @ + x, !.sumY = @ + y,
            !.timeBetweenMovements = keep(IF recTime THEN Append(@, timeDiff) ELSE @),
            !.minTimeBetween = IF recTime THEN MathMin(@, Num(timeDiff)) ELSE @,
            !.maxTimeBetween = IF recTime THEN MathMax(@, Num(timeDiff)) ELSE @,
            !.sumTimeBetween = IF recTime THEN @ + timeDiff ELSE @,
            !.lastMovementTime = timestamp,
            !.movementAngles = keep(IF hasPrev THEN Append(@, angle) ELSE @),
            !.velocities = keep(velocities),
            !.minVelocity = IF recVel THEN MathMin(@, velocity) ELSE @,
            !.maxVelocity = IF recVel THEN MathMax(@, velocity) ELSE @,
            !.sumVelocity = IF recVel THEN Add(@, velocity) ELSE @,
            !.accelerationPatterns = keep(IF recAcc THEN Append(@, acceleration) ELSE @),
            !.velocityConsistencyScores =
                keep(IF recConsistency THEN Append(@, consistencyScore) ELSE @),
            !.straightLineSegments = IF hasSegment /\ straight THEN @ + 1 ELSE @,
            !.curvedLineSegments = IF hasSegment /\ ~straight THEN @ + 1 ELSE @,
            !.positions = IF over THEN Shift(Append(@, position)) ELSE Append(@, position),
            !.timestamps = IF over THEN Shift(Append(@, timestamp)) ELSE Append(@, timestamp),
            !.isMouseInViewport = TRUE,
            !.mouseEntryCount = IF md.isMouseInViewport THEN @ ELSE @ + 1,
            !.viewportEntryTime = IF md.isMouseInViewport THEN @ ELSE timestamp]
    IN  IF tracked.movements % 10 = 0 /\ tracked.movements > 20
        THEN _analyzeRemoteAccessPatterns(tracked)
        ELSE tracked

(***************************************************************************)
(* RemoteDesktopDetector: the mousemove handler                            *)
(***************************************************************************)
InitRemote ==
    [mousePoints |-> <<>>, straightLineCount |-> 0, naturalMovementCount |-> 0,
     lastAnalysisTime |-> 0, mouseJitterSamples |-> <<>>,
     prevMousePosition |-> [x |-> 0, y |-> 0, time |-> 0],
     mousePatterns |-> [straightLineRatio |-> Zero, consistentVelocity |-> FALSE],
     kvmIndicators |-> [detected |-> FALSE, keyboardLag |-> FALSE, mouseJitter |-> FALSE],
     info |-> [mouseJitter |-> "none", mousePatterns |-> "none",
               keyboardLatency |-> "none", latencyAssessment |-> "none",
               confidence |-> <<>>, detectionResult |-> "none"],
     \* results
     detected |-> FALSE, confidence |-> 0, type |-> "none",
     \* screenProperties.suspiciousFactors: <<>> while it is undefined
     suspiciousFactors |-> <<>>,
     \* hardware.isVirtual ("true", "false", "null") and hardware.isKvmGpu
     hardware |-> [isVirtual |-> "false", isKvmGpu |-> "undefined"],
     reducedMotion |-> [detected |-> FALSE],
     remoteSoftware |-> [teamviewer |-> FALSE, citrix |-> FALSE,
                         anydesk |-> FALSE, logmein |-> FALSE],
     inputLatency |-> [average |-> Zero, samples |-> <<>>],
     \* clickStartTimes and keyPressStartTimes: <<>> or the time of the one
     \* button, the one key, that is down
     clickStartTimes |-> <<>>, latencySamples |-> <<>>,
     keyPressStartTimes |-> <<>>, keyLatencySamples |-> <<>>]

maxMousePoints == 20
maxJitterSamples == 50

\* Date.now() when the page was loaded: performance.now() counts from here
timeOrigin == 1000
PerformanceNow(t) == t - timeOrigin

\* the velocity between two tracked points
PointVelocity(p, q) == Div(Num(Sqrt(SquaredDistance(p, q))), Num(q.time - p.time))

\* the loop of _analyzeMouseMovement from index i on; acc carries the two
\* counters, consistentVelocity and previousVelocity (<<>> for null)
RECURSIVE AnalyzeTriples(_, _, _)
AnalyzeTriples(points, i, acc) ==
    IF i > Len(points) THEN acc
    ELSE LET p1 == points[i - 2]
             p2 == points[i - 1]
             p3 == points[i]
             \* area < areaTolerance = 2.0
             isStraightLine == TwiceArea(p1, p2, p3) < 4
             velocity1 == PointVelocity(p1, p2)
             relativeVelocityDiff ==
                 Div(MathAbs(Sub(velocity1, acc.previousVelocity[1])),
                     MathMax(velocity1, acc.previousVelocity[1]))
             inconsistent == acc.previousVelocity # <<>>
                             /\ Gt(relativeVelocityDiff, Rat(3, 10))
         IN  AnalyzeTriples(points, i + 1,
                [straightLineCount |->
                     acc.straightLineCount + (IF isStraightLine THEN 1 ELSE 0),
                 naturalMovementCount |->
                     acc.naturalMovementCount + (IF isStraightLine THEN 0 ELSE 1),
                 consistentVelocity |-> acc.consistentVelocity /\ ~inconsistent,
                 previousVelocity |-> <<velocity1>>])

\* the 'Mouse Patterns' line written by _updateMousePatternInfo()
MousePatternsInfo(mousePatterns) ==
    IF Gt(mousePatterns.straightLineRatio, Rat(85, 100))
       \/ (mousePatterns.consistentVelocity
           /\ Gt(mousePatterns.straightLineRatio, Rat(75, 100)))
    THEN "Suspicious (remote desktop-like)"
    ELSE "Normal"

\* the detector after _analyzeMouseMovement()
_analyzeMouseMovement(rd) ==
    LET loop == AnalyzeTriples(rd.mousePoints, 3,
                    [straightLineCount |-> rd.straightLineCount,
                     naturalMovementCount |-> rd.naturalMovementCount,
                     consistentVelocity |-> TRUE, previousVelocity |-> <<>>])
        totalMovements == loop.straightLineCount + loop.naturalMovementCount
        mousePatterns ==
            IF totalMovements = 0 THEN rd.mousePatterns
            ELSE IF totalMovements < 30
            THEN [straightLineRatio |-> Zero, consistentVelocity |-> FALSE]
            ELSE [straightLineRatio |-> Rat(loop.straightLineCount, totalMovements),
                  consistentVelocity |-> loop.consistentVelocity]
    IN  [rd EXCEPT
           !.straightLineCount = loop.straightLineCount,
           !.naturalMovementCount = loop.naturalMovementCount,
           !.mousePatterns = mousePatterns,
           !.info.mousePatterns =
               IF totalMovements > 0 /\ totalMovements % 20 = 0
               THEN MousePatternsInfo(mousePatterns) ELSE @]

\* the 'Keyboard Latency' and 'Mouse Jitter' lines, the detection flag and the
\* type written by _updateKvmInfo()
_updateKvmInfo(rd) ==
    [rd EXCEPT
       !.info.keyboardLatency =
           IF rd.kvmIndicators.keyboardLag THEN "High (KVM indicator)"
           ELSE IF Len(rd.keyLatencySamples) >= 5 THEN "Normal"
           ELSE "Collecting data...",
       !.info.mouseJitter =
           IF Len(rd.mouseJitterSamples) >= 30
           THEN (IF rd.kvmIndicators.mouseJitter
                 THEN "Detected (KVM indicator)" ELSE "Not detected")
           ELSE "Collecting data...",
       !.kvmIndicators.detected =
           rd.kvmIndicators.keyboardLag /\ rd.kvmIndicators.mouseJitter,
       !.type =
           IF rd.kvmIndicators.keyboardLag /\ rd.kvmIndicators.mouseJitter
           THEN "kvm" ELSE @]

\* the detector after _handleMouseMove(e), performance.now() reading `t`
_handleMouseMove(rd, x, y, t) ==
    LET point == [x |-> x, y |-> y, time |-> t]
        prev == rd.prevMousePosition
        timeDelta == t - prev.time
        sampled == prev.time > 0 /\ timeDelta < 100
        distance == Sqrt(SquaredDistance(prev, point))
        speed == Div(Num(distance), Num(timeDelta))
        jitter == IF distance < 5 /\ Gt(speed, Rat(4, 10)) THEN 1 ELSE 0
        samples == ShiftIfOver(Append(rd.mouseJitterSamples, jitter), maxJitterSamples)
        jitterRatio == Rat(Cardinality({i \in 1..Len(samples) : samples[i] = 1}),
                           Len(samples))
        tracked == [rd EXCEPT
                      !.mousePoints = ShiftIfOver(Append(@, point), maxMousePoints),
                      !.prevMousePosition = point]
        sampledTracked ==
            IF ~sampled THEN tracked
            ELSE LET withSamples == [tracked EXCEPT !.mouseJitterSamples = samples]
                     withJitter ==
                         IF Len(samples) >= 30
                         THEN [withSamples EXCEPT
                                 !.kvmIndicators.mouseJitter = Gt(jitterRatio, Rat(15, 100))]
                         ELSE withSamples
                 IN  IF Len(samples) >= 30 /\ Len(samples) % 10 = 0
                     THEN _updateKvmInfo(withJitter) ELSE withJitter
    IN  IF t - rd.lastAnalysisTime > 500 /\ Len(sampledTracked.mousePoints) >= 3
        THEN [_analyzeMouseMovement(sampledTracked) EXCEPT !.lastAnalysisTime = t]
        ELSE sampledTracked

(***************************************************************************)
(* RemoteDesktopDetector: input latency handlers                           *)
(***************************************************************************)
maxLatencySamples == 10

\* the average of an array of integer latencies
AverageOf(samples) ==
    Div(SumRange([i \in 1..Len(samples) |-> Num(samples[i])], 1, Len(samples)),
        Num(Len(samples)))

\* the detector after _handleMouseDown(e), performance.now() reading `t`
_handleMouseDown(rd, t) == [rd EXCEPT !.clickStartTimes = <<t>>]

\* the 'Latency Assessment' line written by _updateLatencyInfo()
_updateLatencyInfo(rd) ==
    [rd EXCEPT
       !.info.latencyAssessment =
           IF Gt(rd.inputLatency.average, Num(50))
           THEN "High (possible remote desktop)" ELSE "Normal"]

\* the latency samples after one more sample
PushLatency(samples, latency) ==
    ShiftIfOver(Append(samples, latency), maxLatencySamples)

\* the detector after _handleMouseUp(e), performance.now() reading `t`
_handleMouseUp(rd, t) ==
    IF rd.clickStartTimes = <<>> THEN rd
    ELSE IF Len(PushLatency(rd.latencySamples, t - rd.clickStartTimes[1])) % 3 = 0
    THEN _updateLatencyInfo(
           [rd EXCEPT
              !.latencySamples = PushLatency(@, t - rd.clickStartTimes[1]),
              !.inputLatency =
                  [average |->
                       AverageOf(PushLatency(rd.latencySamples,
                                             t - rd.clickStartTimes[1])),
                   samples |-> PushLatency(rd.latencySamples,
                                           t - rd.clickStartTimes[1])],
              !.clickStartTimes = <<>>])
    ELSE [rd EXCEPT
            !.latencySamples = PushLatency(@, t - rd.clickStartTimes[1]),
            !.inputLatency =
                [average |->
                     AverageOf(PushLatency(rd.latencySamples,
                                           t - rd.clickStartTimes[1])),
                 samples |-> PushLatency(rd.latencySamples,
                                         t - rd.clickStartTimes[1])],
            !.clickStartTimes = <<>>]

\* the detector after _handleKeyDown(e), performance.now() reading `t`
_handleKeyDown(rd, t) == [rd EXCEPT !.keyPressStartTimes = <<t>>]

\* the key latency part of _handleKeyUp once the sample is stored
KeyLagChecked(rd) ==
    IF Len(rd.keyLatencySamples) < 5 THEN rd
    ELSE IF Len(rd.keyLatencySamples) % 3 = 0
    THEN _updateKvmInfo(
           [rd EXCEPT !.kvmIndicators.keyboardLag =
                          Gt(AverageOf(rd.keyLatencySamples), Num(80))])
    ELSE [rd EXCEPT !.kvmIndicators.keyboardLag =
                        Gt(AverageOf(rd.keyLatencySamples), Num(80))]

\* the detector after _handleKeyUp(e), performance.now() reading `t`
_handleKeyUp(rd, t) ==
    IF rd.keyPressStartTimes = <<>> THEN rd
    ELSE [KeyLagChecked(
            [rd EXCEPT !.keyLatencySamples =
                           PushLatency(@, t - rd.keyPressStartTimes[1])])
          EXCEPT !.keyPressStartTimes = <<>>]

(***************************************************************************)
(* RemoteDesktopDetector: detect()                                         *)
(***************************************************************************)
commonRemoteResolutions ==
    {<<1024, 768>>, <<1280, 720>>, <<1280, 800>>, <<1366, 768>>,
     <<1440, 900>>, <<1600, 900>>, <<1920, 1080>>}

\* the names detectVirtualHardware looks for in the renderer and the vendor
virtualGPUs ==
    {"VMware", "VirtualBox", "llvmpipe", "SwiftShader",
     "Microsoft Basic Render", "Parallels", "SVGA3D"}
kvmGPUs == {"QXL", "virtio", "Cirrus", "vgasave", "SPICE", "Red Hat", "Bochs", "QEMU"}

\* the detector after detectScreenProperties() on host h
detectScreenProperties(rd, h) ==
    [rd EXCEPT
       !.suspiciousFactors =
           <<[isCommonRemoteResolution |->
                  <<h.screenWidth, h.screenHeight>> \in commonRemoteResolutions,
              unusualColorDepth |-> h.colorDepth < 24,
              \* devicePixelRatio % 1 !== 0
              nonIntegerDPR |-> h.devicePixelRatio.n % h.devicePixelRatio.d # 0]>>]

\* the detector after detectVirtualHardware() on host h; h.gpuNames are the
\* names the renderer and vendor strings contain
detectVirtualHardware(rd, h) ==
    IF ~h.webgl
    THEN [rd EXCEPT !.hardware = [isVirtual |-> "null", isKvmGpu |-> "undefined"]]
    ELSE [rd EXCEPT
            !.hardware = [isVirtual |-> Boolean(h.gpuNames \cap virtualGPUs # {}),
                          isKvmGpu |-> Boolean(h.gpuNames \cap kvmGPUs # {})],
            !.kvmIndicators.detected =
                IF h.gpuNames \cap kvmGPUs # {} THEN TRUE ELSE @,
            !.type = IF h.gpuNames \cap kvmGPUs # {} THEN "kvm" ELSE @]

\* the detector after detectReducedMotion() on host h
detectReducedMotion(rd, h) ==
    [rd EXCEPT
       !.reducedMotion = [detected |-> h.prefersReducedMotion],
       !.type = IF h.prefersReducedMotion THEN "rdp" ELSE @]

\* results.type after the checks of detectRemoteSoftware, in their order
RemoteSoftwareType(type, software) ==
    IF "VNC" \in software THEN "vnc"
    ELSE IF "LogMeIn" \in software \/ "AnyDesk" \in software THEN "other"
    ELSE IF "Citrix" \in software THEN "citrix"
    ELSE IF "TeamViewer" \in software THEN "teamviewer"
    ELSE type

\* the detector after detectRemoteSoftware() on host h
detectRemoteSoftware(rd, h) ==
    [rd EXCEPT
       !.remoteSoftware = [teamviewer |-> "TeamViewer" \in h.software,
                           citrix |-> "Citrix" \in h.software,
                           anydesk |-> "AnyDesk" \in h.software,
                           logmein |-> "LogMeIn" \in h.software],
       !.type = RemoteSoftwareType(@, h.software)]

\* one factor of _calculateConfidence: whether it is checked and what it adds
Factor(checked, score) == [checked |-> checked, score |-> score]

ScreenFactor(rd) ==
    IF rd.suspiciousFactors = <<>> THEN Factor(FALSE, Zero)
    ELSE Factor(TRUE,
           Rat((IF rd.suspiciousFactors[1].isCommonRemoteResolution THEN 1 ELSE 0)
               + (IF rd.suspiciousFactors[1].unusualColorDepth THEN 1 ELSE 0)
               + (IF rd.suspiciousFactors[1].nonIntegerDPR THEN 1 ELSE 0), 10))

HardwareFactor(rd) ==
    Factor(rd.hardware.isVirtual # "null",
           Fired(rd.hardware.isVirtual = "true", Rat(3, 10)))

\* kvmScore, in hundredths
KvmScore(rd) ==
    (IF rd.kvmIndicators.keyboardLag THEN 10 ELSE 0)
    + (IF rd.kvmIndicators.mouseJitter THEN 10 ELSE 0)
    + (IF rd.hardware.isKvmGpu = "true" THEN 15 ELSE 0)

KvmFactor(rd) ==
    Factor(rd.kvmIndicators.keyboardLag \/ rd.kvmIndicators.mouseJitter
           \/ rd.hardware.isKvmGpu = "true",
           Rat(KvmScore(rd), 100))

ReducedMotionFactor(rd) ==
    Factor(TRUE, Fired(rd.reducedMotion.detected, Rat(35, 100)))

RemoteSoftwareFactor(rd) ==
    Factor(TRUE,
           Fired(rd.remoteSoftware.teamviewer \/ rd.remoteSoftware.citrix
                 \/ rd.remoteSoftware.anydesk \/ rd.remoteSoftware.logmein,
                 Rat(5, 10)))

MouseFactor(rd) ==
    Factor(rd.straightLineCount + rd.naturalMovementCount > 30,
           IF Gt(rd.mousePatterns.straightLineRatio, Rat(85, 100)) THEN Rat(15, 100)
           ELSE IF Gt(rd.mousePatterns.straightLineRatio, Rat(75, 100))
                   /\ rd.mousePatterns.consistentVelocity THEN Rat(15, 100)
           ELSE IF Gt(rd.mousePatterns.straightLineRatio, Rat(75, 100)) THEN Rat(1, 10)
           ELSE Zero)

LatencyFactor(rd) ==
    Factor(Len(rd.latencySamples) >= 3,
           Fired(Gt(rd.inputLatency.average, Num(50)), Rat(15, 100)))

\* the factors of _calculateConfidence in the order of the code
ConfidenceFactors(rd) ==
    <<ScreenFactor(rd), HardwareFactor(rd), KvmFactor(rd), ReducedMotionFactor(rd),
      RemoteSoftwareFactor(rd), MouseFactor(rd), LatencyFactor(rd)>>

\* Math.min(Math.round((score / factorsChecked) * 100), 100) over the checked
\* factors
ConfidenceOf(factors) ==
    IF {i \in 1..Len(factors) : factors[i].checked} = {} THEN 0
    ELSE MathMin(
           MathRound(
             Mul(Div(SumRange([i \in 1..Len(factors) |->
                                 IF factors[i].checked THEN factors[i].score
                                 ELSE Zero], 1, Len(factors)),
                     Num(Cardinality({i \in 1..Len(factors) : factors[i].checked}))),
                 Num(100))),
           Num(100)).n

\* the 'Detection Result' line
DetectionMessage(detected, type) ==
    IF ~detected THEN "No Remote Access Detected"
    ELSE CASE type = "kvm" -> "KVM System Detected"
           [] type = "rdp" -> "RDP Connection Detected"
           [] type = "vnc" -> "VNC Connection Detected"
           [] type = "teamviewer" -> "TeamViewer Connection Detected"
           [] type = "citrix" -> "Citrix Session Detected"
           [] OTHER -> "Remote Access Detected"

\* results.type after _calculateConfidence arrived at `confidence`
ConfidenceType(rd, confidence) ==
    IF (rd.kvmIndicators.keyboardLag \/ rd.kvmIndicators.mouseJitter
        \/ rd.hardware.isKvmGpu = "true")
       /\ KvmScore(rd) >= 20 /\ rd.type = "none"
    THEN "kvm"
    ELSE IF confidence > 60 /\ rd.type = "none" THEN "other"
    ELSE rd.type

\* the detector after _calculateConfidence()
_calculateConfidence(rd) ==
    [rd EXCEPT
       !.confidence = ConfidenceOf(ConfidenceFactors(rd)),
       !.detected = ConfidenceOf(ConfidenceFactors(rd)) > 60,
       !.type = ConfidenceType(rd, ConfidenceOf(ConfidenceFactors(rd))),
       !.info.confidence = <<ConfidenceOf(ConfidenceFactors(rd))>>,
       !.info.detectionResult =
           DetectionMessage(ConfidenceOf(ConfidenceFactors(rd)) > 60,
                            ConfidenceType(rd, ConfidenceOf(ConfidenceFactors(rd))))]

\* the detector after detect() on host h
RemoteDetect(rd, h) ==
    _calculateConfidence(
      detectRemoteSoftware(
        detectReducedMotion(
          detectVirtualHardware(detectScreenProperties(rd, h), h), h), h))

(***************************************************************************)
(* APIFingerprintDetector: the PerformanceEventTiming monitor              *)
(***************************************************************************)
monitorDuration == 5000

\* results.eventTiming and the closure of _detectPerformanceEventTiming
\* (isMonitoring, observedEvents, the observer and its timer), with the entries
\* the browser has queued for the observer
InitEventTiming ==
    [started |-> FALSE, supported |-> FALSE,
     isMonitoring |-> FALSE, observing |-> FALSE, deadline |-> 0,
     queued |-> <<>>, observedEvents |-> <<>>,
     analyses |-> 0, events |-> <<>>, patterns |-> <<>>, fingerprint |-> <<>>,
     error |-> "none",
     info |-> [monitoringStatus |-> "none", results |-> "none",
               timingAnomalies |-> "none"]]

RECURSIVE IntSum(_)
IntSum(s) == IF s = <<>> THEN 0 ELSE Head(s) + IntSum(Tail(s))

\* name.includes(word): an event name is held as the words it is made of
\* ('pointerdown' is <<"pointer", "down">>)
NameIncludes(name, word) == \E i \in 1..Len(name) : name[i] = word

_categorizeEvent(event) ==
    IF NameIncludes(event.name, "mouse") \/ NameIncludes(event.name, "pointer")
    THEN "mouse"
    ELSE IF NameIncludes(event.name, "key") THEN "keyboard"
    ELSE IF NameIncludes(event.name, "click") THEN "click"
    ELSE IF NameIncludes(event.name, "focus") \/ NameIncludes(event.name, "blur")
    THEN "focus"
    ELSE IF NameIncludes(event.name, "touch") THEN "touch"
    ELSE "other"

\* the events of one category, in the order they were observed
EventsOf(events, category) ==
    SelectSeq(events, LAMBDA e : _categorizeEvent(e) = category)

\* Object.keys(categorizedEvents): the categories in the order of their first
\* event
RECURSIVE CategoriesOf(_, _)
CategoriesOf(events, seen) ==
    IF events = <<>> THEN seen
    ELSE CategoriesOf(Tail(events),
           IF \E i \in 1..Len(seen) : seen[i] = _categorizeEvent(Head(events))
           THEN seen ELSE Append(seen, _categorizeEvent(Head(events))))

\* timeCoeffVariation < k, for durations with sum s and sum of squares q:
\* (stdDev / mean) * 100 < k, and 0 < k when the mean is 0
CoeffVariationBelow(n, s, q, k) ==
    IF s = 0 THEN 0 < k ELSE (n * q - s * s) * 10000 < k * k * s * s

\* maxRepeatCount: the largest number of equal intervals between the start
\* times of consecutive events
MaxRepeatCount(events) ==
    LET intervals == [i \in 1..(Len(events) - 1) |->
                         events[i + 1].startTime - events[i].startTime]
        count(v) == Cardinality({i \in 1..Len(intervals) : intervals[i] = v})
    IN  IF intervals = <<>> THEN 0
        ELSE CHOOSE c \in 1..Len(intervals) :
               /\ \E i \in 1..Len(intervals) : count(intervals[i]) = c
               /\ \A i \in 1..Len(intervals) : count(intervals[i]) <= c

\* the pattern _analyzeEventTimingPatterns finds in the events of a category
\* ("null" for none); the texts are kept without their figures
_analyzeEventTimingPatterns(category, events) ==
    IF Len(events) < 5 THEN "null"
    ELSE LET n == Len(events)
             s == IntSum([i \in 1..n |-> events[i].duration])
             q == IntSum([i \in 1..n |-> events[i].duration * events[i].duration])
             totalDelay ==
                 IntSum([i \in 1..n |-> events[i].processingStart - events[i].startTime])
             maxRepeatCount == MaxRepeatCount(events)
         IN  CASE category = "mouse" ->
                    IF CoeffVariationBelow(n, s, q, 3) /\ n > 20
                    THEN "Unusually consistent mouse timing"
                    ELSE IF maxRepeatCount * 10 > 8 * (n - 1) /\ n > 15
                    THEN "Repeating mouse movement pattern"
                    ELSE "null"
               [] category = "keyboard" ->
                    IF CoeffVariationBelow(n, s, q, 10) /\ n > 15
                    THEN "Unusually consistent keyboard timing"
                    ELSE IF totalDelay < n /\ n > 12
                    THEN "Unusually fast keyboard processing"
                    ELSE "null"
               [] category = "click" ->
                    IF CoeffVariationBelow(n, s, q, 5) /\ n > 6
                    THEN "Unusually consistent click timing"
                    ELSE IF maxRepeatCount * 10 > 9 * (n - 1) /\ n > 5
                    THEN "Repeating click pattern"
                    ELSE "null"
               [] OTHER ->
                    IF (s = 0 \/ n * q = s * s) /\ n > 8
                    THEN "Perfect timing consistency"
                    ELSE "null"

\* results.eventTiming.events[category]
CategoryTotals(category, events) ==
    [category |-> category, count |-> Len(events),
     totalDelay |->
         IntSum([i \in 1..Len(events) |->
                    events[i].processingStart - events[i].startTime])]

\* _generateEventTimingFingerprint: (avgDuration * 1000), (avgDelay * 1000)
\* to 0 decimals, and the number of events
_generateEventTimingFingerprint(events) ==
    <<MathRound(Rat(1000 * IntSum([i \in 1..Len(events) |-> events[i].duration]),
                    Len(events))).n,
      MathRound(Rat(1000 * IntSum([i \in 1..Len(events) |->
                                      events[i].processingStart - events[i].startTime]),
                    Len(events))).n,
      Len(events)>>

\* the monitor after _analyzeCollectedEvents(events)
_analyzeCollectedEvents(et, events) ==
    IF events = <<>>
    THEN [et EXCEPT !.analyses = @ + 1,
                    !.info.results = "No events captured during monitoring period"]
    ELSE LET categories == CategoriesOf(events, <<>>)
             found == [i \in 1..Len(categories) |->
                          _analyzeEventTimingPatterns(
                              categories[i], EventsOf(events, categories[i]))]
             patternsFound == SelectSeq(found, LAMBDA p : p # "null")
         IN  [et EXCEPT
                !.analyses = @ + 1,
                !.events = [i \in 1..Len(categories) |->
                               CategoryTotals(categories[i],
                                              EventsOf(events, categories[i]))],
                !.patterns = patternsFound,
                !.info.timingAnomalies =
                    IF patternsFound = <<>>
                    THEN "None detected - input patterns appear human-like"
                    ELSE "Potential Anomalies",
                !.fingerprint =
                    IF Len(events) > 5
                    THEN _generateEventTimingFingerprint(events) ELSE @]

\* the monitor after _detectPerformanceEventTiming() at time t
_detectPerformanceEventTiming(et, supported, t) ==
    IF ~supported
    THEN [et EXCEPT !.started = TRUE, !.supported = FALSE]
    ELSE [et EXCEPT !.started = TRUE, !.supported = TRUE,
                    !.isMonitoring = TRUE, !.observing = TRUE,
                    !.deadline = t + monitorDuration,
                    !.info.monitoringStatus = "Starting..."]

\* the monitor after the PerformanceObserver callback got the queued entries
ObserverCallback(et) ==
    IF ~et.isMonitoring THEN [et EXCEPT !.queued = <<>>]
    ELSE [et EXCEPT
            !.info.monitoringStatus = "Active - capturing events...",
            !.observedEvents = @ \o et.queued,
            !.queued = <<>>]

\* a variant of the setTimeout callback that analyses what was collected and
\* leaves the observer running
TimeoutKeepsObserving(et) ==
    _analyzeCollectedEvents(
        [et EXCEPT !.deadline = @ + monitorDuration,
                   !.info.monitoringStatus = "Complete - Analyzing results..."],
        et.observedEvents)

\* the monitor after the setTimeout callback: observer.disconnect() drops what
\* is still queued for the observer
MonitoringTimeout(et) ==
    _analyzeCollectedEvents(
        [et EXCEPT !.isMonitoring = FALSE, !.observing = FALSE, !.queued = <<>>,
                   !.info.monitoringStatus = "Complete - Analyzing results..."],
        et.observedEvents)

(***************************************************************************)
(* BotDetector: heuristic evaluators                                       *)
(***************************************************************************)
\* _detectHeadlessBrowser up to the plugins test: the state the promise
\* callback closes over (headlessScore, testsRun, isHeadless)
HeadlessSync(e) ==
    LET chromeWithoutObject == e.uaChrome /\ ~e.windowChrome
        noPlugins == e.hasPlugins /\ e.pluginCount = 0
    IN  [headlessScore |->
             Add(Add(Add(Fired(e.uaHeadless, One), Fired(e.webdriver, One)),
                     Fired(chromeWithoutObject, Rat(8, 10))),
                 Fired(noPlugins, Rat(3, 10))),
         testsRun |-> 3 + (IF e.hasPermissions THEN 1 ELSE 0) + 1,
         isHeadless |-> e.uaHeadless \/ e.webdriver \/ chromeWithoutObject,
         \* navigator.plugins.length throws when navigator.plugins is undefined
         threw |-> ~e.hasPlugins]

HeadlessScoreOf(c) == MathMin(One, Div(c.headlessScore, Num(c.testsRun)))

_detectFakeUserAgent(e) ==
    LET fakeUAScore ==
            (IF e.uaFirefox /\ ~e.installTrigger THEN 1 ELSE 0)
            + (IF e.uaSafari /\ ~e.windowSafari /\ ~e.uaChrome THEN 1 ELSE 0)
            + (IF e.uaChrome /\ ~e.windowChrome THEN 1 ELSE 0)
            + (IF e.uaWindows /\ e.uaMac THEN 1 ELSE 0)
            + (IF e.uaAndroid /\ e.uaWindows THEN 1 ELSE 0)
            + (IF e.uaChrome /\ e.uaFirefox THEN 1 ELSE 0)
    IN  [score |-> MathMin(One, Rat(fakeUAScore, 6)), detected |-> fakeUAScore > 0]

_detectUnusualScreenResolution(e) ==
    LET tiny == e.screenWidth <= 1 \/ e.screenHeight <= 1
        huge == e.screenWidth > 8000 \/ e.screenHeight > 8000
        larger == e.outerWidth > e.screenWidth \/ e.outerHeight > e.screenHeight
        aspectRatio == Rat(e.screenWidth, e.screenHeight)
        odd == Lt(aspectRatio, Rat(1, 2)) \/ Gt(aspectRatio, Num(3))
        resolutionScore ==
            Add(Add(Add(Fired(tiny, One), Fired(huge, Rat(8, 10))),
                    Fired(larger, Rat(9, 10))), Fired(odd, Rat(7, 10)))
    IN  [score |-> MathMin(One, Div(resolutionScore, Num(4))),
         detected |-> tiny \/ huge \/ larger \/ odd]

\* e.rdpItem is the 'RDP Connection Detected' value GraphicsDetector put in
\* the color-depth-info section ("none" when that section does not exist);
\* its 'RDP Detection Confidence' value is a word ('High', 'N/A', ...), never
\* a percentage, so the parseFloat branch leaves rdpScore alone
_detectRDP(e) ==
    IF e.rdpItem # "none"
    THEN [score |-> IF e.rdpItem = "Yes" THEN Rat(9, 10) ELSE Zero,
          detected |-> e.rdpItem = "Yes"]
    ELSE IF e.colorDepth = 8 THEN [score |-> Rat(9, 10), detected |-> TRUE]
    ELSE IF e.colorDepth = 16 THEN [score |-> Rat(7, 10), detected |-> TRUE]
    ELSE IF e.colorDepth = 24 /\ e.uaWindows
         THEN [score |-> Rat(3, 10), detected |-> FALSE]
    ELSE [score |-> Zero, detected |-> FALSE]

_detectFingerprintAnomalies(e) ==
    LET canvasPart ==
            IF ~e.canvas2d THEN Rat(5, 10)
            ELSE IF e.toDataURLThrows THEN Rat(7, 10)
            ELSE Fired(e.blankCanvas, Rat(8, 10))
        webglPart == IF ~e.webgl THEN Rat(4, 10) ELSE Fired(e.vmRenderer, Rat(6, 10))
        patched == Fired(e.canvasPatched, Rat(8, 10))
    IN  MathMin(Add(Add(canvasPart, webglPart), patched), One)

\* the browsers detect() is run in
Environments ==
    LET desktop ==
          [uaHeadless |-> FALSE, webdriver |-> FALSE, uaChrome |-> TRUE,
           windowChrome |-> TRUE, hasPermissions |-> TRUE, hasPlugins |-> TRUE,
           pluginCount |-> 3, uaFirefox |-> FALSE, installTrigger |-> FALSE,
           uaSafari |-> TRUE, windowSafari |-> FALSE, uaWindows |-> TRUE,
           uaMac |-> FALSE, uaAndroid |-> FALSE,
           screenWidth |-> 1920, screenHeight |-> 1080,
           outerWidth |-> 1920, outerHeight |-> 1040,
           rdpItem |-> "No", colorDepth |-> 24,
           canvas2d |-> TRUE, toDataURLThrows |-> FALSE, blankCanvas |-> FALSE,
           webgl |-> TRUE, vmRenderer |-> FALSE, canvasPatched |-> FALSE,
           sectionInDom |-> TRUE]
    IN  { desktop,
          \* headless Chrome on a virtual GPU behind a 16-bit remote session
          [desktop EXCEPT !.uaHeadless = TRUE, !.webdriver = TRUE,
                          !.windowChrome = FALSE, !.pluginCount = 0,
                          !.screenWidth = 800, !.screenHeight = 600,
                          !.outerWidth = 1024, !.outerHeight = 768,
                          !.rdpItem = "Yes", !.colorDepth = 16,
                          !.blankCanvas = TRUE, !.vmRenderer = TRUE,
                          !.canvasPatched = TRUE],
          \* an old Firefox driven by Selenium: no Permissions API,
          \* navigator.plugins undefined, GraphicsDetector has not run, and
          \* the page has no bot-detection section
          [desktop EXCEPT !.webdriver = TRUE, !.sectionInDom = FALSE,
                          !.uaChrome = FALSE, !.windowChrome = FALSE,
                          !.uaSafari = FALSE, !.uaFirefox = TRUE,
                          !.hasPermissions = FALSE, !.hasPlugins = FALSE,
                          !.rdpItem = "none", !.webgl = FALSE] }

NoEnv == [uaHeadless |-> FALSE]

\* the gestures of the pointer: displacement (px) and time since the last event (ms)
Gestures ==
    { [dx |-> 0, dy |-> 0, dt |-> 16],      \* an event that does not move
      [dx |-> 16, dy |-> 0, dt |-> 16],     \* steady movement to the right
      [dx |-> 16, dy |-> 0, dt |-> 0],      \* two events within one millisecond
      [dx |-> 0, dy |-> 24, dt |-> 8] }     \* faster movement downwards

\* the pointer repeats a short pattern of gestures
Patterns == UNION {[1..n -> Gestures] : n \in 1..MaxPattern}

\* the gesture of the k-th event of the stream
GestureAt(pattern, k) == pattern[((k - 1) % Len(pattern)) + 1]

StartPosition == [x |-> 100, y |-> 100]

\* the position the next event of gesture g reports
NextPosition(md, g) ==
    IF md.positions = <<>> THEN StartPosition
    ELSE [x |-> Last(md.positions).x + g.dx, y |-> Last(md.positions).y + g.dy]

(***************************************************************************)
(* BotDetector: operations                                                 *)
(***************************************************************************)
Init ==
    /\ mouseData = InitMouseData
    /\ suspiciousPatterns = InitSuspiciousPatterns
    /\ detectionScores = InitDetectionScores
    /\ botData = [isHeadlessBrowser |-> "undefined", isFakeUserAgent |-> "undefined",
                  isUnusualResolution |-> "undefined", isRDP |-> "undefined"]
    /\ permissionsProbe = [status |-> "none"]
    /\ display = [status |-> "none", botStatus |-> "none",
                  scoreCircle |-> <<>>, scoreLabel |-> "none",
                  headlessIndicator |-> "none"]
    /\ env = NoEnv
    /\ now = timeOrigin
    /\ \E pattern \in Patterns : stream = [events |-> 0, pattern |-> pattern]
    /\ interaction = InitInteractionData
    /\ remote = InitRemote
    /\ history = [dispatched |-> <<>>, moved |-> <<>>]
    /\ eventTiming = InitEventTiming
    /\ uncaught = "none"

\* detect(): the listener is registered, the evaluators run in order, the
\* score display is created; _detectAPIAnomalies returns at once because
\* this.apiDetector is never assigned
Detect(e) ==
    /\ env = NoEnv
    /\ LET h == HeadlessSync(e)
           ua == _detectFakeUserAgent(e)
           res == _detectUnusualScreenResolution(e)
           rdp == _detectRDP(e)
           scores ==
             [detectionScores EXCEPT
                !.headlessBrowser = IF h.threw THEN @ ELSE HeadlessScoreOf(h),
                !.fakeUserAgent = ua.score,
                !.unusualResolution = res.score,
                !.rdpDetection = rdp.score,
                !.fingerprinting = _detectFingerprintAnomalies(e)]
       IN  /\ detectionScores' = scores
           /\ botData' =
                [isHeadlessBrowser |->
                     IF h.threw THEN "undefined" ELSE Boolean(h.isHeadless),
                 isFakeUserAgent |-> Boolean(ua.detected),
                 isUnusualResolution |-> Boolean(res.detected),
                 isRDP |-> Boolean(rdp.detected)]
           /\ permissionsProbe' =
                IF e.hasPermissions
                THEN [status |-> "pending", headlessScore |-> h.headlessScore,
                      testsRun |-> h.testsRun, isHeadless |-> h.isHeadless]
                ELSE [status |-> "none"]
           /\ display' = IF e.sectionInDom
                         THEN ShowScore(display, _updateUI(scores)) ELSE display
    /\ env' = e
    /\ UNCHANGED <<mouseData, suspiciousPatterns, now, stream, listeners, uncaught>>

\* a mousemove event reaches the listener
MouseMove ==
    /\ env # NoEnv
    /\ stream.events < MaxEvents
    /\ LET g == GestureAt(stream.pattern, stream.events + 1)
           p == NextPosition(mouseData, g)
       IN  /\ mouseData' = OnMouseMove(mouseData, p.x, p.y, now + g.dt)
           /\ now' = now + g.dt
    /\ stream' = [stream EXCEPT !.events = @ + 1]
    /\ UNCHANGED <<suspiciousPatterns, detectionScores, botData,
                   permissionsProbe, display, env, listeners, uncaught>>

\* what a cycle leaves behind: the patterns, the scores and the page
CycleOutcome(sp, scores, disp) ==
    [suspiciousPatterns |-> sp, detectionScores |-> scores, display |-> disp]

\* the status label is written from the overall score, then _updateUI()
ShowResults(md, sp, scores, disp) ==
    CycleOutcome(sp, scores,
        ShowScore([disp EXCEPT
                     !.botStatus = _getBotStatusLabel(md, scores.overallScore)],
                  _updateUI(scores)))

\* this.detectionScores.overallScore = this._calculateOverallScore()
ScoreOverall(md, sp, scores, disp) ==
    ShowResults(md, sp,
        [scores EXCEPT !.overallScore = _calculateOverallScore(scores)], disp)

\* this.detectionScores.mousePatterns = this._calculateBotLikelihood()
ScoreMousePatterns(md, sp, scores, disp) ==
    ScoreOverall(md, sp,
        [scores EXCEPT !.mousePatterns = _calculateBotLikelihood(md, sp)], disp)

\* _analyzeAndUpdateResults() followed by _updateUI(): what one evaluation
\* cycle makes of the patterns, the scores and the page
CycleResult(md, sp, scores, disp) ==
    IF md.movements < minimumSamples
    THEN CycleOutcome(sp, scores,
             ShowScore([disp EXCEPT !.status = "Collecting data..."],
                       _updateUI(scores)))
    ELSE ScoreMousePatterns(md, _analyzeForBotPatterns(md, sp), scores, disp)

\* document.getElementById(this.sectionId).querySelector('.property-list') in
\* _analyzeAndUpdateResults: a TypeError when the section is not in the
\* document; the early return below minimumSamples does not get there
SectionLookupThrows(md, e) == md.movements >= minimumSamples /\ ~e.sectionInDom

\* the setInterval callback fires: _analyzeAndUpdateResults() has no try/catch
\* and the callback has none, so the TypeError leaves the callback after the
\* scores were written and before the status line and _updateUI(); on a page
\* without the section nothing is displayed either way
EvaluationCycle ==
    /\ env # NoEnv
    /\ \E r \in {CycleResult(mouseData, suspiciousPatterns, detectionScores, display)} :
         /\ suspiciousPatterns' = r.suspiciousPatterns
         /\ detectionScores' = r.detectionScores
         /\ display' = IF env.sectionInDom THEN r.display ELSE display
    /\ uncaught' = IF SectionLookupThrows(mouseData, env) THEN "TypeError" ELSE "none"
    /\ UNCHANGED <<mouseData, botData, permissionsProbe, env, now, stream, listeners>>

\* a variant of the callback that stores the headless score and leaves
\* overallScore to the next evaluation cycle
ProbeResolvesWithoutRecalculation(inconsistent) ==
    /\ permissionsProbe.status = "pending"
    /\ IF inconsistent
       THEN LET c == [permissionsProbe EXCEPT
                        !.status = "settled",
                        !.isHeadless = TRUE,
                        !.headlessScore = Add(@, Rat(7, 10))]
            IN  /\ permissionsProbe' = c
                /\ detectionScores' =
                     [detectionScores EXCEPT !.headlessBrowser = HeadlessScoreOf(c)]
                /\ display' = [display EXCEPT !.headlessIndicator =
                                 "Inconsistent permissions behavior"]
       ELSE /\ permissionsProbe' = [permissionsProbe EXCEPT !.status = "settled"]
            /\ UNCHANGED <<detectionScores, display>>
    /\ UNCHANGED <<mouseData, suspiciousPatterns, botData, env, now, stream, listeners, uncaught>>

\* the promise of navigator.permissions.query resolves; `inconsistent` is
\* permission.state === 'denied' && Notification.permission === 'default'
ProbeResolves(inconsistent) ==
    /\ permissionsProbe.status = "pending"
    /\ IF inconsistent
       THEN LET c == [permissionsProbe EXCEPT
                        !.status = "settled",
                        !.isHeadless = TRUE,
                        !.headlessScore = Add(@, Rat(7, 10))]
                s1 == [detectionScores EXCEPT !.headlessBrowser = HeadlessScoreOf(c)]
            IN  /\ permissionsProbe' = c
                /\ detectionScores' =
                     [s1 EXCEPT !.overallScore = _calculateOverallScore(s1)]
                /\ display' = [display EXCEPT !.headlessIndicator =
                                 "Inconsistent permissions behavior"]
       ELSE /\ permissionsProbe' = [permissionsProbe EXCEPT !.status = "settled"]
            /\ UNCHANGED <<detectionScores, display>>
    /\ UNCHANGED <<mouseData, suspiciousPatterns, botData, env, now, stream, listeners, uncaught>>

\* the promise rejects: .catch(() => {})
ProbeRejects ==
    /\ permissionsProbe.status = "pending"
    /\ permissionsProbe' = [permissionsProbe EXCEPT !.status = "settled"]
    /\ UNCHANGED <<mouseData, suspiciousPatterns, detectionScores, botData,
                   display, env, now, stream, listeners, uncaught>>

Next ==
    \/ \E e \in Environments : Detect(e)
    \/ MouseMove
    \/ EvaluationCycle
    \/ \E inconsistent \in BOOLEAN : ProbeResolves(inconsistent)
    \/ ProbeRejects

Spec == Init /\ [][Next]_vars

(***************************************************************************)
(* Properties of the BotDetector lifecycle                                 *)
(***************************************************************************)
\* _calculateOverallScore() has run at least once: by a full evaluation
\* cycle or by the permissions callback
OverallCalculated ==
    display.botStatus # "none" \/ display.headlessIndicator # "none"

\* sum of score*weight over sum of weight, every factor of `keys` once
RECURSIVE SumOver(_, _, _)
SumOver(keys, f, i) ==
    IF i > Len(keys) THEN Zero ELSE Add(f[keys[i]], SumOver(keys, f, i + 1))

WeightedMeanOnce(keys, scores) ==
    Div(SumOver(keys, [k \in DOMAIN scoreWeights |-> Mul(scores[k], scoreWeights[k])], 1),
        SumOver(keys, scoreWeights, 1))

\* C1: after any mousemove samples, evaluation cycles and probe completions
\* detectionScores.overallScore is a number in [0,1], never NaN
C1_OverallInUnitInterval ==
    /\ IsFinite(detectionScores.overallScore)
    /\ Le(Zero, detectionScores.overallScore)
    /\ Le(detectionScores.overallScore, One)

\* C2: the overall score is the sum of score*weight over the sum of the
\* weights, every factor and its weight counted exactly once
C2_WeightedMeanCountedOnce ==
    OverallCalculated =>
        detectionScores.overallScore =
            WeightedMeanOnce(ScoreWeightKeys, detectionScores)

\* the factors for which a score has been produced: the four evaluators that
\* completed in detect(), the headless evaluator when it did not throw, and
\* the mouse analyzer once it had its minimum samples
SelectSeq2(keys, produced) == SelectSeq(keys, LAMBDA k : k \in produced)

ProducedFactors ==
    (IF env # NoEnv
     THEN {"fakeUserAgent", "unusualResolution", "rdpDetection", "fingerprinting"}
     ELSE {})
    \cup (IF botData.isHeadlessBrowser # "undefined" THEN {"headlessBrowser"} ELSE {})
    \cup (IF display.botStatus # "none" THEN {"mousePatterns"} ELSE {})

\* C3: a factor for which no score was produced is excluded from the
\* numerator and the denominator of overallScore
C3_AbsentFactorsExcluded ==
    OverallCalculated =>
        detectionScores.overallScore =
            WeightedMeanOnce(SelectSeq2(ScoreWeightKeys, ProducedFactors),
                             detectionScores)

\* the cycle run again on what a first run left behind
RepeatedCycle(first) ==
    CycleResult(mouseData, first.suspiciousPatterns, first.detectionScores,
                first.display)

\* C4: an evaluation cycle run a second time, with no mousemove and no probe
\* completion in between, leaves detectionScores, suspiciousPatterns and the
\* status label as the first run left them
C4_CycleIdempotent ==
    RepeatedCycle(CycleResult(mouseData, suspiciousPatterns, detectionScores, display))
        = CycleResult(mouseData, suspiciousPatterns, detectionScores, display)

\* a full cycle has run on a window in which it flagged a pattern
C4_Witness ==
    /\ display.botStatus \notin {"none", "Insufficient data"}
    /\ suspiciousPatterns.consistentVelocity
    /\ Gt(detectionScores.mousePatterns, Zero)
    /\ detectionScores = CycleResult(mouseData, suspiciousPatterns,
                                     detectionScores, display).detectionScores

\* C6: overallScore is determined by the factor scores alone, whatever the
\* order in which they were written (the permissions result before or after
\* the mouse-pattern score)
C6_OrderIndependent ==
    OverallCalculated =>
        detectionScores.overallScore = _calculateOverallScore(detectionScores)

\* both the permissions result and the mouse-pattern score have been written
C6_Witness ==
    /\ display.headlessIndicator # "none"
    /\ display.botStatus # "none"
    /\ Gt(detectionScores.mousePatterns, Zero)
    /\ Gt(detectionScores.headlessBrowser, Zero)

\* C7: below thresholds.minimumSamples nothing but 'Collecting data...' is
\* exposed: no numeric score, no human/suspicious/bot label
C7_CollectingExposesNoVerdict ==
    mouseData.movements < minimumSamples =>
        /\ display.status \in {"none", "Collecting data..."}
        /\ display.botStatus \in {"none", "Insufficient data"}
        /\ display.scoreCircle = <<>>
        /\ display.scoreLabel = "none"

\* C10: a mousemove records velocity, angle and inter-arrival time together:
\* all three when a previous sample exists and time advanced, none otherwise
C10_MetricsRecordedTogether ==
    [][MouseMove =>
        LET hasPrev == mouseData.positions # <<>>
            advanced == hasPrev /\ now' > Last(mouseData.timestamps)
            grew(field) == Len(mouseData'[field]) = Len(mouseData[field]) + 1
        IN  /\ grew("velocities") => advanced
            /\ grew("angles") => advanced
            /\ grew("timeBetweenMovements") => advanced]_vars

\* the tests of the evaluators in environment e: the sum of the weights of
\* the tests that fired and the number of tests that ran; probeFired is the
\* permissions callback having found the inconsistency
HeadlessTests(e, probeFired) ==
    [triggered |-> Add(HeadlessSync(e).headlessScore, Fired(probeFired, Rat(7, 10))),
     testsRun |-> HeadlessSync(e).testsRun]

FakeUserAgentTests(e) ==
    [triggered |->
         Add(Add(Add(Fired(e.uaFirefox /\ ~e.installTrigger, One),
                     Fired(e.uaSafari /\ ~e.windowSafari /\ ~e.uaChrome, One)),
                 Add(Fired(e.uaChrome /\ ~e.windowChrome, One),
                     Fired(e.uaWindows /\ e.uaMac, One))),
             Add(Fired(e.uaAndroid /\ e.uaWindows, One),
                 Fired(e.uaChrome /\ e.uaFirefox, One))),
     testsRun |-> 6]

ResolutionTests(e) ==
    [triggered |->
         Add(Add(Fired(e.screenWidth <= 1 \/ e.screenHeight <= 1, One),
                 Fired(e.screenWidth > 8000 \/ e.screenHeight > 8000, Rat(8, 10))),
             Add(Fired(e.outerWidth > e.screenWidth \/ e.outerHeight > e.screenHeight,
                       Rat(9, 10)),
                 Fired(Lt(Rat(e.screenWidth, e.screenHeight), Rat(1, 2))
                       \/ Gt(Rat(e.screenWidth, e.screenHeight), Num(3)), Rat(7, 10)))),
     testsRun |-> 4]

\* one test: the GraphicsDetector verdict, or the colour depth without it
RdpTests(e) ==
    [triggered |->
         IF e.rdpItem # "none" THEN Fired(e.rdpItem = "Yes", Rat(9, 10))
         ELSE IF e.colorDepth = 8 THEN Rat(9, 10)
         ELSE IF e.colorDepth = 16 THEN Rat(7, 10)
         ELSE Fired(e.colorDepth = 24 /\ e.uaWindows, Rat(3, 10)),
     testsRun |-> 1]

\* Test 1 (canvas), Test 2 (WebGL), Test 3 (patched canvas API)
FingerprintTests(e) ==
    [triggered |->
         Add(Add(IF ~e.canvas2d THEN Rat(5, 10)
                 ELSE IF e.toDataURLThrows THEN Rat(7, 10)
                 ELSE Fired(e.blankCanvas, Rat(8, 10)),
                 IF ~e.webgl THEN Rat(4, 10) ELSE Fired(e.vmRenderer, Rat(6, 10))),
             Fired(e.canvasPatched, Rat(8, 10))),
     testsRun |-> 3]

\* min(1, sum of the weights of the triggered tests / number of tests run)
NormalizedScore(tests) == MathMin(One, Div(tests.triggered, Num(tests.testsRun)))

InUnitInterval(score) == IsFinite(score) /\ Le(Zero, score) /\ Le(score, One)

\* C12: every evaluator score that has been written equals
\* min(1, triggered weights / tests run) and lies in [0,1]
C12_EvaluatorScoresNormalized ==
    env # NoEnv =>
        /\ botData.isHeadlessBrowser # "undefined" =>
              detectionScores.headlessBrowser =
                  NormalizedScore(HeadlessTests(env, display.headlessIndicator # "none"))
        /\ detectionScores.fakeUserAgent = NormalizedScore(FakeUserAgentTests(env))
        /\ detectionScores.unusualResolution = NormalizedScore(ResolutionTests(env))
        /\ detectionScores.rdpDetection = NormalizedScore(RdpTests(env))
        /\ detectionScores.fingerprinting = NormalizedScore(FingerprintTests(env))
        /\ \A k \in {"headlessBrowser", "fakeUserAgent", "unusualResolution",
                      "rdpDetection", "fingerprinting"} :
              InUnitInterval(detectionScores[k])

\* the headless tests whose capability exists in e: the user agent, webdriver
\* and Chrome tests always, the permissions test with navigator.permissions,
\* the plugins test with navigator.plugins
AvailableHeadlessTests(e, probeFired) ==
    [triggered |->
         Add(Add(Add(Fired(e.uaHeadless, One), Fired(e.webdriver, One)),
                 Fired(e.uaChrome /\ ~e.windowChrome, Rat(8, 10))),
             Add(Fired(e.hasPermissions /\ probeFired, Rat(7, 10)),
                 Fired(e.hasPlugins /\ e.pluginCount = 0, Rat(3, 10)))),
     testsRun |-> 3 + (IF e.hasPermissions THEN 1 ELSE 0)
                    + (IF e.hasPlugins THEN 1 ELSE 0)]

\* C13: a test whose capability is absent is left out of the triggered
\* weights and of the tests run, and the remaining tests of the headless
\* evaluator determine the factor score it writes
C13_AbsentCapabilityExcluded ==
    env # NoEnv =>
        /\ botData.isHeadlessBrowser # "undefined"
        /\ detectionScores.headlessBrowser =
              NormalizedScore(
                  AvailableHeadlessTests(env, display.headlessIndicator # "none"))

\* the lifecycle with the timer of setInterval: the evaluation cycle keeps
\* firing, while the promise of the permissions query may stay pending for ever
SpecTimer == Init /\ [][Next]_vars /\ WF_vars(EvaluationCycle)

\* the headless tests with the permissions probe left out
HeadlessTestsWithoutProbe(e) ==
    [triggered |-> HeadlessSync(e).headlessScore,
     testsRun |-> HeadlessSync(e).testsRun - (IF e.hasPermissions THEN 1 ELSE 0)]

\* C14: when the permissions probe never resolves, its contribution is
\* excluded from the headless score (neither a triggered test nor a test
\* run) while the evaluation cycles keep running
C14_UnresolvedProbeExcluded ==
    <>[](permissionsProbe.status = "pending")
        => <>[](/\ env # NoEnv
                /\ detectionScores.headlessBrowser =
                      NormalizedScore(HeadlessTestsWithoutProbe(env)))

\* C15: the headless factor either entirely lacks or entirely includes the
\* result of the permissions probe, its score and its detected flag
\* botData.isHeadlessBrowser alike, and overallScore is recomputed in the
\* step that merges the result
C15_ProbeMergedAtomically ==
    env # NoEnv /\ botData.isHeadlessBrowser # "undefined" =>
        IF display.headlessIndicator # "none"
        THEN /\ detectionScores.headlessBrowser =
                   NormalizedScore(HeadlessTests(env, TRUE))
             /\ botData.isHeadlessBrowser = "true"
             /\ detectionScores.overallScore = _calculateOverallScore(detectionScores)
        ELSE /\ detectionScores.headlessBrowser =
                   NormalizedScore(HeadlessTests(env, FALSE))
             /\ botData.isHeadlessBrowser = Boolean(HeadlessSync(env).isHeadless)

C17_ExposedScoreIsCurrent ==
    [][((\E e \in Environments : Detect(e)) \/ EvaluationCycle)
         /\ display'.scoreCircle # <<>>
          => display'.scoreCircle =
                 <<MathRound(Mul(_calculateOverallScore(detectionScores'), Num(100)))>>]_vars

(***************************************************************************)
(* The aggregator and the classifier on their own: factor scores drawn     *)
(* from a grid, _calculateOverallScore and _getBotStatusLabel applied      *)
(***************************************************************************)
ScoreGridSteps == 10
ScoreGrid == {Rat(i, ScoreGridSteps) : i \in 0..ScoreGridSteps}

\* factor scores: six factors at 0 or 1 (rdpDetection and fingerprinting
\* together), one anywhere on the grid
ScoreMaps ==
    {[InitDetectionScores EXCEPT
        !.mousePatterns = Num(b[1]), !.headlessBrowser = Num(b[2]),
        !.fakeUserAgent = Num(b[3]), !.eventTimingPatterns = Num(b[4]),
        !.rdpDetection = Num(b[5]), !.fingerprinting = Num(b[5]),
        !.unusualResolution = r] : b \in [1..5 -> {0, 1}], r \in ScoreGrid}

\* mouseData after the events k..n of a stream, the k-th stamped t + dt
RECURSIVE Replay(_, _, _, _, _)
Replay(md, pattern, k, n, t) ==
    IF k > n THEN md
    ELSE LET g == GestureAt(pattern, k)
             p == NextPosition(md, g)
         IN  Replay(OnMouseMove(md, p.x, p.y, t + g.dt), pattern, k + 1, n, t + g.dt)

SteadyStream == <<[dx |-> 16, dy |-> 0, dt |-> 16]>>

InitScore ==
    /\ \E n \in {0, minimumSamples} :
         /\ mouseData = Replay(InitMouseData, SteadyStream, 1, n, timeOrigin)
         /\ stream = [events |-> n, pattern |-> SteadyStream]
         /\ now = timeOrigin + 16 * n
    /\ detectionScores \in ScoreMaps
    /\ suspiciousPatterns = InitSuspiciousPatterns
    /\ botData = [isHeadlessBrowser |-> "undefined", isFakeUserAgent |-> "undefined",
                  isUnusualResolution |-> "undefined", isRDP |-> "undefined"]
    /\ permissionsProbe = [status |-> "none"]
    /\ display = [status |-> "none", botStatus |-> "none",
                  scoreCircle |-> <<>>, scoreLabel |-> "none",
                  headlessIndicator |-> "none"]
    /\ env = NoEnv
    /\ interaction = InitInteractionData
    /\ remote = InitRemote
    /\ history = [dispatched |-> <<>>, moved |-> <<>>]
    /\ eventTiming = InitEventTiming
    /\ uncaught = "none"

\* this._calculateOverallScore()
CalculateScore ==
    /\ display.botStatus = "none"
    /\ detectionScores' =
         [detectionScores EXCEPT !.overallScore = _calculateOverallScore(detectionScores)]
    /\ UNCHANGED <<mouseData, suspiciousPatterns, botData, permissionsProbe,
                   display, env, now, stream, listeners, uncaught>>

\* botStatus = this._getBotStatusLabel(this.detectionScores.overallScore)
ClassifyScore ==
    /\ display' = [display EXCEPT !.botStatus =
                     _getBotStatusLabel(mouseData, detectionScores.overallScore)]
    /\ UNCHANGED <<mouseData, suspiciousPatterns, detectionScores, botData,
                   permissionsProbe, env, now, stream, listeners, uncaught>>

NextScore == CalculateScore \/ ClassifyScore

SpecScore == InitScore /\ [][NextScore]_vars

\* detectionScores with the score of one factor replaced
WithScore(scores, key, value) == [scores EXCEPT ![key] = value]

\* C5: with the weights and the other factor scores fixed, raising one
\* factor score never lowers the result of _calculateOverallScore
C5_Monotone ==
    LET before == _calculateOverallScore(detectionScores)
    IN  \A i \in 1..Len(ScoreWeightKeys) : \A v \in ScoreGrid :
            Gt(v, detectionScores[ScoreWeightKeys[i]]) =>
                Ge(_calculateOverallScore(
                       WithScore(detectionScores, ScoreWeightKeys[i], v)), before)

\* the overall score has been calculated from a non-zero factor, and raising
\* another factor raises it strictly
C5_Witness ==
    /\ Gt(detectionScores.overallScore, Zero)
    /\ detectionScores.overallScore = _calculateOverallScore(detectionScores)
    /\ \E i \in 1..Len(ScoreWeightKeys) : \E v \in ScoreGrid :
         /\ Gt(v, detectionScores[ScoreWeightKeys[i]])
         /\ Gt(_calculateOverallScore(WithScore(detectionScores, ScoreWeightKeys[i], v)),
               detectionScores.overallScore)

\* the bucket of a score by the cut points 0.3, 0.5, 0.7
Bucket(score) ==
    IF Lt(score, Rat(3, 10)) THEN "Likely human"
    ELSE IF Lt(score, Rat(5, 10)) THEN "Some unusual patterns"
    ELSE IF Lt(score, Rat(7, 10)) THEN "Suspicious patterns detected"
    ELSE "Highly likely to be a bot"

Severity(label) ==
    CASE label = "Likely human" -> 0
      [] label = "Some unusual patterns" -> 1
      [] label = "Suspicious patterns detected" -> 2
      [] label = "Highly likely to be a bot" -> 3

\* C8: with the minimum sample count reached the label is the bucket of
\* overallScore by the cut points 0.3, 0.5, 0.7, and a higher score never
\* gets a less severe label
C8_Classification ==
    mouseData.movements >= minimumSamples /\ display.botStatus # "none" =>
        /\ display.botStatus = Bucket(detectionScores.overallScore)
        /\ \A v \in ScoreGrid :
             Ge(v, detectionScores.overallScore) =>
                 Severity(_getBotStatusLabel(mouseData, v)) >= Severity(display.botStatus)

\* a score on a cut point has been classified
C8_Witness ==
    /\ mouseData.movements >= minimumSamples
    /\ detectionScores.overallScore \in {Rat(3, 10), Rat(5, 10), Rat(7, 10)}
    /\ display.botStatus = Bucket(detectionScores.overallScore)


(***************************************************************************)
(* The three mousemove listeners of the page on long pointer streams       *)
(***************************************************************************)
MaxDispatched == 205

\* a pointer at rest, a steady move, a small move in the same millisecond,
\* a turn, and a move before which the system clock was set back: dt is the
\* time that passed, clockStep the adjustment of Date.now() (performance.now()
\* is monotonic and does not follow it)
WindowGestures ==
    {[dx |-> 0, dy |-> 0, dt |-> 16, clockStep |-> 0],
     [dx |-> 16, dy |-> 0, dt |-> 16, clockStep |-> 0],
     [dx |-> 4, dy |-> 0, dt |-> 0, clockStep |-> 0],
     [dx |-> 0, dy |-> 24, dt |-> 16, clockStep |-> 0],
     [dx |-> 16, dy |-> 0, dt |-> 16, clockStep |-> -24],
     [dx |-> 12, dy |-> 0, dt |-> 24, clockStep |-> 0]}

\* a stroke with a corner: two steps to the right, then one step down
CornerStroke ==
    <<[dx |-> 16, dy |-> 0, dt |-> 16, clockStep |-> 0],
      [dx |-> 16, dy |-> 0, dt |-> 16, clockStep |-> 0],
      [dx |-> 0, dy |-> 24, dt |-> 16, clockStep |-> 0]>>

WindowStreams == [1..2 -> WindowGestures] \cup {CornerStroke}

InitWindow ==
    /\ mouseData = InitMouseData
    /\ suspiciousPatterns = InitSuspiciousPatterns
    /\ detectionScores = InitDetectionScores
    /\ botData = [isHeadlessBrowser |-> "undefined", isFakeUserAgent |-> "undefined",
                  isUnusualResolution |-> "undefined", isRDP |-> "undefined"]
    /\ permissionsProbe = [status |-> "none"]
    /\ display = [status |-> "none", botStatus |-> "none",
                  scoreCircle |-> <<>>, scoreLabel |-> "none",
                  headlessIndicator |-> "none"]
    /\ env = NoEnv
    /\ now = timeOrigin
    /\ \E pattern \in WindowStreams :
         stream = [events |-> 0, pattern |-> pattern, monotonic |-> timeOrigin]
    /\ interaction = InitInteractionData
    /\ remote = InitRemote
    /\ history = [dispatched |-> <<>>, moved |-> <<>>]
    /\ eventTiming = InitEventTiming
    /\ uncaught = "none"

\* a mousemove event is dispatched on the document: the listeners of
\* BotDetector, MouseInteractionDetector and RemoteDesktopDetector run
DocumentMouseMove ==
    /\ env # NoEnv
    /\ stream.events < MaxDispatched
    /\ LET g == GestureAt(stream.pattern, stream.events + 1)
           p == NextPosition(mouseData, g)
           t == now + g.dt + g.clockStep
           monotonic == stream.monotonic + g.dt
           sample == [x |-> p.x, y |-> p.y, time |-> t,
                      performance |-> PerformanceNow(monotonic)]
           pointerMoved == history.dispatched = <<>>
                           \/ Last(history.dispatched).x # p.x
                           \/ Last(history.dispatched).y # p.y
       IN  /\ mouseData' = OnMouseMove(mouseData, p.x, p.y, t)
           /\ interaction' = InteractionMouseMove(interaction, p.x, p.y, t)
           /\ remote' = _handleMouseMove(remote, p.x, p.y, PerformanceNow(monotonic))
           /\ stream' = [stream EXCEPT !.events = @ + 1, !.monotonic = monotonic]
           /\ history' = [dispatched |-> Append(history.dispatched, sample),
                          moved |-> IF pointerMoved
                                    THEN Append(history.moved, sample)
                                    ELSE history.moved]
           /\ now' = t
    /\ UNCHANGED <<suspiciousPatterns, detectionScores, botData,
                   permissionsProbe, display, env, eventTiming, uncaught>>

\* a tick of the setInterval timer once the stream is 200 events long (the
\* ticks during shorter streams are those of Spec)
LateEvaluationCycle ==
    /\ Len(history.dispatched) >= 200
    /\ EvaluationCycle

NextWindow ==
    \/ \E e \in Environments : Detect(e)
    \/ DocumentMouseMove
    \/ LateEvaluationCycle

SpecWindow == InitWindow /\ [][NextWindow]_vars

\* the last min(Len(s), n) elements of s
LastN(s, n) == IF Len(s) <= n THEN s ELSE SubSeq(s, Len(s) - n + 1, Len(s))

PositionsOf(samples) == [i \in 1..Len(samples) |-> [x |-> samples[i].x, y |-> samples[i].y]]
TimesOf(samples) == [i \in 1..Len(samples) |-> samples[i].time]

\* C9: each movement window holds the most recent min(n, N) accepted samples
\* in arrival order, positions and timestamps aligned, and never more than N
\* (100 in BotDetector, 200 in MouseInteractionDetector, 20 in
\* RemoteDesktopDetector)
C9_WindowsHoldMostRecent ==
    /\ mouseData.positions = PositionsOf(LastN(history.dispatched, 100))
    /\ mouseData.timestamps = TimesOf(LastN(history.dispatched, 100))
    /\ Len(mouseData.positions) <= 100
    /\ interaction.positions = PositionsOf(LastN(history.moved, 200))
    /\ interaction.timestamps = TimesOf(LastN(history.moved, 200))
    /\ Len(interaction.positions) <= 200
    /\ remote.mousePoints =
         [i \in 1..Len(LastN(history.dispatched, 20)) |->
            [x |-> LastN(history.dispatched, 20)[i].x,
             y |-> LastN(history.dispatched, 20)[i].y,
             time |-> LastN(history.dispatched, 20)[i].performance]]
    /\ Len(remote.mousePoints) <= 20

\* every window has evicted samples
C9_Witness ==
    /\ Len(history.moved) > 200
    /\ Len(interaction.positions) = 200
    /\ Len(mouseData.positions) = 100
    /\ Len(remote.mousePoints) = 20

\* C11: a mousemove stamped earlier than the last stored sample is dropped:
\* the movement count, the min/max/sum statistics, the windows and every
\* derived statistic of BotDetector and of MouseInteractionDetector stay
\* what they were
C11_MalformedSampleDropped ==
    [][DocumentMouseMove /\ history.dispatched # <<>>
                         /\ now' < Last(history.dispatched).time
          => mouseData' = mouseData /\ interaction' = interaction]_vars

\* 200 samples on one straight line, equally spaced in position, at intervals
\* of 16 ms
StraightLineScenario ==
    /\ Len(history.dispatched) = 200
    /\ \E step \in {[dx |-> g.dx, dy |-> g.dy] : g \in WindowGestures} :
         /\ step.dx # 0 \/ step.dy # 0
         /\ \A i \in 2..200 :
              /\ history.dispatched[i].x = history.dispatched[i - 1].x + step.dx
              /\ history.dispatched[i].y = history.dispatched[i - 1].y + step.dy
              /\ history.dispatched[i].time = history.dispatched[i - 1].time + 16

\* C18: on the straight-line scenario MouseInteractionDetector counts at least
\* 95% of the segments as straight and scores at least 50, and a cycle of
\* BotDetector scores mousePatterns at least 0.5
C18_StraightLineScenario ==
    StraightLineScenario =>
        /\ interaction.straightLineSegments * 100 >=
              95 * (interaction.straightLineSegments + interaction.curvedLineSegments)
        /\ interaction.straightLineSegments > 0
        /\ interaction.remoteAccessScore >= 50
        /\ display.botStatus # "none" =>
              Ge(detectionScores.mousePatterns, Rat(5, 10))

\* the scenario has been ingested and an evaluation cycle has run on it
C18_Witness ==
    /\ StraightLineScenario
    /\ display.botStatus # "none"
    /\ interaction.movements = 200
    /\ Len(mouseData.angles) >= 50

\* C19: remoteAccessScore lies in 0..100 and remoteSuspicionReasons is non-empty
\* exactly when the score is greater than 0, in every state and so after every
\* run of _analyzeRemoteAccessPatterns
C19_ScoreBoundedAndExplained ==
    /\ interaction.remoteAccessScore \in 0..100
    /\ interaction.remoteSuspicionReasons # <<>> <=> interaction.remoteAccessScore > 0

\* the analysis has just run and found something
C19_Witness ==
    /\ interaction.movements > 20
    /\ interaction.movements % 10 = 0
    /\ interaction.remoteAccessScore > 0
    /\ Len(interaction.remoteSuspicionReasons) >= 2

\* C20: when MouseInteractionDetector ingests a sample that has at least three
\* accepted samples before it, it classifies one triple, and counts it as
\* straight exactly when the new sample and the two samples immediately
\* preceding it pass the length-scaled area test
C20_ClassifiesConsecutiveTriple ==
    [][DocumentMouseMove /\ history'.moved # history.moved
                         /\ Len(history.moved) >= 3 =>
         /\ interaction'.straightLineSegments + interaction'.curvedLineSegments =
               interaction.straightLineSegments + interaction.curvedLineSegments + 1
         /\ interaction'.straightLineSegments = interaction.straightLineSegments + 1
               <=> IsNearlyCollinear(history.moved[Len(history.moved) - 1],
                                     Last(history.moved),
                                     Last(history'.moved))]_vars

\* C21 as claimed: with more than minimumSamples angles, the consecutive-run
\* score is non-zero only when the longest run, the speed and the total
\* distance are all over their thresholds
C21_RunScoresOnlyJointly ==
    Len(mouseData.angles) > minimumSamples =>
        LET r == ConsecutiveRunOf(mouseData)
        IN  RunScore(r) # Zero =>
              /\ r.maxConsecutive >= 15
              /\ r.isHighSpeedSequence
              /\ r.totalDistance > 500

\* C21 as amended: the score is 0.9 when run length (20), speed and distance
\* (500) are all over their thresholds, 0.7 for a run of 15 with a fast
\* straight step whatever the distance, 0.5 for a run of 25 whatever the speed
\* and the distance, and 0 otherwise
C21_RunScoreTiers ==
    Len(mouseData.angles) > minimumSamples =>
        LET r == ConsecutiveRunOf(mouseData)
            fastAndFar == r.isHighSpeedSequence /\ r.totalDistance > 500
        IN  \E score \in {RunScore(r)} :
              /\ score \in {Zero, Rat(5, 10), Rat(7, 10), Rat(9, 10)}
              /\ score = Rat(9, 10) <=> r.maxConsecutive >= 20 /\ fastAndFar
              /\ score = Rat(7, 10) <=>
                    /\ r.maxConsecutive >= 15 /\ r.isHighSpeedSequence
                    /\ ~(r.maxConsecutive >= 20 /\ fastAndFar)
              /\ score = Rat(5, 10) <=>
                    r.maxConsecutive >= 25 /\ ~r.isHighSpeedSequence

\* a long slow straight run has been scored 0.5 by an evaluation cycle
C21_Witness ==
    /\ Len(mouseData.angles) > minimumSamples
    /\ display.botStatus # "none"
    /\ LET r == ConsecutiveRunOf(mouseData)
       IN  /\ RunScore(r) = Rat(5, 10)
           /\ r.maxConsecutive >= 25
           /\ ~r.isHighSpeedSequence

(***************************************************************************)
(* RemoteDesktopDetector: lifecycle                                        *)
(***************************************************************************)
\* the machines the page is opened on: screen, GPU, media query, remote
\* software found in the page, and how long a click and a keystroke last (ms)
Hosts ==
    LET workstation ==
          [screenWidth |-> 2560, screenHeight |-> 1440, colorDepth |-> 24,
           devicePixelRatio |-> Num(1), webgl |-> TRUE, gpuNames |-> {},
           prefersReducedMotion |-> FALSE, software |-> {},
           clickLatency |-> 40, keyLatency |-> 40]
    IN  {workstation,
         \* a remote session on a virtual machine: every indicator is there
         [workstation EXCEPT
            !.screenWidth = 1920, !.screenHeight = 1080, !.colorDepth = 16,
            !.devicePixelRatio = Rat(5, 4),
            !.gpuNames = {"llvmpipe", "Red Hat"},
            !.prefersReducedMotion = TRUE, !.software = {"TeamViewer"},
            !.clickLatency = 120, !.keyLatency = 100],
         \* a QEMU guest used at its console
         [workstation EXCEPT !.gpuNames = {"QXL"}],
         \* a browser without WebGL behind a KVM switch
         [workstation EXCEPT !.webgl = FALSE, !.keyLatency = 100]}

\* pointer gestures: displacement (px) and time since the last event (ms)
RemoteStreams ==
    LET jitter == [dx |-> 4, dy |-> 0, dt |-> 8]
        slow == [dx |-> 4, dy |-> 0, dt |-> 90]
        side == [dx |-> 0, dy |-> 24, dt |-> 90]
        steady == [dx |-> 16, dy |-> 0, dt |-> 16]
    IN  {<<jitter, slow>>, <<slow, side>>, <<steady, steady>>, <<slow, slow>>}

\* the state after `new RemoteDesktopDetector()` on one of the hosts
InitRemoteDetector ==
    /\ mouseData = InitMouseData
    /\ suspiciousPatterns = InitSuspiciousPatterns
    /\ detectionScores = InitDetectionScores
    /\ botData = [isHeadlessBrowser |-> "undefined", isFakeUserAgent |-> "undefined",
                  hasUnusualResolution |-> "undefined"]
    /\ permissionsProbe = [status |-> "none"]
    /\ display = [scoreCircle |-> <<>>, scoreLabel |-> "none", status |-> "none",
                  botStatus |-> "none", headlessIndicator |-> "none"]
    /\ env \in Hosts
    /\ now = timeOrigin
    /\ \E pattern \in RemoteStreams :
         stream = [events |-> 0, pattern |-> pattern]
    /\ interaction = InitInteractionData
    /\ remote = InitRemote
    /\ history = [dispatched |-> <<>>, moved |-> <<>>]
    /\ eventTiming = InitEventTiming
    /\ uncaught = "none"

\* detect() has run: the 'Remote Desktop Confidence' line is on the page
RemoteDetected == remote.info.confidence # <<>>

\* the page calls detect() right after the constructor
DetectRemoteDesktop ==
    /\ ~RemoteDetected
    /\ remote' = RemoteDetect(remote, env)
    /\ UNCHANGED <<mouseData, suspiciousPatterns, detectionScores, botData,
                   permissionsProbe, display, env, now, stream, interaction,
                   history, eventTiming, uncaught>>

\* no button and no key is down, and the pointer is between two strokes
BetweenStrokes ==
    /\ remote.clickStartTimes = <<>>
    /\ remote.keyPressStartTimes = <<>>
    /\ stream.events % StrokeLength = 0

\* a mousemove event reaches _handleMouseMove
RemoteMouseMove ==
    /\ RemoteDetected
    /\ stream.events < MaxRemoteMoves
    /\ remote.clickStartTimes = <<>> /\ remote.keyPressStartTimes = <<>>
    /\ \E g \in {GestureAt(stream.pattern, stream.events + 1)} :
         \E p \in {IF history.dispatched = <<>> THEN StartPosition
                   ELSE [x |-> Last(history.dispatched).x + g.dx,
                         y |-> Last(history.dispatched).y + g.dy]} :
           /\ remote' = _handleMouseMove(remote, p.x, p.y, PerformanceNow(now + g.dt))
           /\ history' = [history EXCEPT
                            !.dispatched =
                                Append(@, [x |-> p.x, y |-> p.y, time |-> now + g.dt,
                                           performance |-> PerformanceNow(now + g.dt)])]
           /\ now' = now + g.dt
    /\ stream' = [stream EXCEPT !.events = @ + 1]
    /\ UNCHANGED <<mouseData, suspiciousPatterns, detectionScores, botData,
                   permissionsProbe, display, env, interaction, eventTiming,
                   uncaught>>

\* mousedown
PressButton ==
    /\ RemoteDetected /\ BetweenStrokes
    /\ Len(remote.latencySamples) < MaxClicks
    /\ remote' = _handleMouseDown(remote, PerformanceNow(now))
    /\ UNCHANGED <<mouseData, suspiciousPatterns, detectionScores, botData,
                   permissionsProbe, display, env, now, stream, interaction,
                   history, eventTiming, uncaught>>

\* mouseup, the host's click latency later
ReleaseButton ==
    /\ remote.clickStartTimes # <<>>
    /\ now' = now + env.clickLatency
    /\ remote' = _handleMouseUp(remote, PerformanceNow(now + env.clickLatency))
    /\ UNCHANGED <<mouseData, suspiciousPatterns, detectionScores, botData,
                   permissionsProbe, display, env, stream, interaction,
                   history, eventTiming, uncaught>>

\* keydown
PressKey ==
    /\ RemoteDetected /\ BetweenStrokes
    /\ Len(remote.keyLatencySamples) < MaxKeys
    /\ remote' = _handleKeyDown(remote, PerformanceNow(now))
    /\ UNCHANGED <<mouseData, suspiciousPatterns, detectionScores, botData,
                   permissionsProbe, display, env, now, stream, interaction,
                   history, eventTiming, uncaught>>

\* keyup, the host's keystroke latency later
ReleaseKey ==
    /\ remote.keyPressStartTimes # <<>>
    /\ now' = now + env.keyLatency
    /\ remote' = _handleKeyUp(remote, PerformanceNow(now + env.keyLatency))
    /\ UNCHANGED <<mouseData, suspiciousPatterns, detectionScores, botData,
                   permissionsProbe, display, env, stream, interaction,
                   history, eventTiming, uncaught>>

NextRemote ==
    \/ DetectRemoteDesktop
    \/ RemoteMouseMove
    \/ PressButton
    \/ ReleaseButton
    \/ PressKey
    \/ ReleaseKey

SpecRemote == InitRemoteDetector /\ [][NextRemote]_vars

\* the visitor has stopped: no input event of the session is outstanding
RemoteSessionOver ==
    /\ RemoteDetected
    /\ stream.events = MaxRemoteMoves
    /\ remote.clickStartTimes = <<>> /\ remote.keyPressStartTimes = <<>>
    /\ BetweenStrokes => /\ Len(remote.latencySamples) = MaxClicks
                         /\ Len(remote.keyLatencySamples) = MaxKeys

\* mouse-pattern or latency data has arrived since detect(): the mouse or the
\* latency factor of _calculateConfidence is checked
RemoteDataArrived ==
    /\ RemoteDetected
    /\ MouseFactor(remote).checked \/ LatencyFactor(remote).checked

\* results.confidence and results.detected are what _calculateConfidence
\* computes from the data the detector holds now
ConfidenceCurrent ==
    /\ remote.confidence = ConfidenceOf(ConfidenceFactors(remote))
    /\ remote.detected = (ConfidenceOf(ConfidenceFactors(remote)) > 60)

\* C22: after detect(), once mouse-pattern or input-latency data has come in,
\* results.confidence and results.detected are eventually recomputed so that
\* they reflect that data: when the visitor stops they do (the class starts no
\* timer, so nothing runs after the last input event)
C22_ConfidenceFollowsData ==
    RemoteSessionOver /\ RemoteDataArrived => ConfidenceCurrent

\* avgAngle and avgTimeBetween of _analyzeAndUpdateResults
AvgAngle(md) ==
    IF Len(md.angles) > 0 THEN Rat(md.sumAngle, Len(md.angles)) ELSE Zero

AvgTimeBetween(md) ==
    IF Len(md.timeBetweenMovements) > 0
    THEN Rat(md.sumTimeBetween, Len(md.timeBetweenMovements)) ELSE Zero

\* min <= avg <= max
Within(avg, min, max) == Ge(avg, min) /\ Le(avg, max)

\* C23: at every evaluation (the timer callback gets past the minimumSamples
\* test, _analyzeRemoteAccessPatterns gets to its timing analysis) each
\* average derived from the running statistics lies between the running
\* minimum and the running maximum of the same metric, also after the window
\* has evicted samples
C23_AveragesWithinRange ==
    /\ mouseData.movements >= minimumSamples =>
         /\ Len(mouseData.velocities) > 0 =>
              Within(AvgVelocity(mouseData), mouseData.minVelocity,
                     mouseData.maxVelocity)
         /\ Len(mouseData.timeBetweenMovements) > 0 =>
              Within(AvgTimeBetween(mouseData), mouseData.minTimeBetween,
                     mouseData.maxTimeBetween)
         /\ Len(mouseData.angles) > 0 =>
              Within(AvgAngle(mouseData), mouseData.minAngle, mouseData.maxAngle)
    /\ Len(interaction.timeBetweenMovements) > 10 =>
         Within(AvgTimeBetween(interaction), interaction.minTimeBetween,
                interaction.maxTimeBetween)

\* the factor scores no evaluator of BotDetector ever assigns: they keep the
\* constructor's 0
UnwrittenFactorsAtZero(scores) ==
    scores.apiFingerprint = Zero /\ scores.eventTimingPatterns = Zero

\* every factor score an evaluator or analyzer assigns is at its ceiling
WrittenFactorsAtCeiling(scores) ==
    /\ scores.mousePatterns = One /\ scores.headlessBrowser = One
    /\ scores.fakeUserAgent = One /\ scores.unusualResolution = One
    /\ scores.rdpDetection = One /\ scores.fingerprinting = One

\* C24: the top bucket is reachable with what BotDetector's own evaluators and
\* analyzers produce: as the overall score never falls when a factor score
\* rises, that is to say that with every factor they write at its ceiling
\* (and the factors nothing writes at the constructor's 0) the overall score
\* is at least 0.7 and the status is 'Highly likely to be a bot'
C24_TopBucketReachable ==
    /\ mouseData.movements >= minimumSamples
    /\ WrittenFactorsAtCeiling(detectionScores)
    /\ UnwrittenFactorsAtZero(detectionScores)
    /\ detectionScores.overallScore = _calculateOverallScore(detectionScores)
    /\ display.botStatus # "none"
    => /\ Ge(detectionScores.overallScore, botScoreThreshold)
       /\ display.botStatus = "Highly likely to be a bot"

\* every indicator _calculateConfidence examines fires: each factor is checked
\* and has its highest score
AllIndicatorsFire(rd) ==
    /\ ScreenFactor(rd) = Factor(TRUE, Rat(3, 10))
    /\ HardwareFactor(rd) = Factor(TRUE, Rat(3, 10))
    /\ KvmFactor(rd) = Factor(TRUE, Rat(35, 100))
    /\ ReducedMotionFactor(rd) = Factor(TRUE, Rat(35, 100))
    /\ RemoteSoftwareFactor(rd) = Factor(TRUE, Rat(5, 10))
    /\ MouseFactor(rd).checked /\ Gt(rd.mousePatterns.straightLineRatio, Rat(85, 100))
    /\ LatencyFactor(rd) = Factor(TRUE, Rat(15, 100))

\* C25: when every indicator examined by _calculateConfidence fires, the
\* confidence it computes exceeds 60 and results.detected becomes true with a
\* type other than 'none'
C25_AllIndicatorsDetect ==
    RemoteDetected /\ AllIndicatorsFire(remote) =>
        /\ _calculateConfidence(remote).confidence > 60
        /\ _calculateConfidence(remote).detected
        /\ _calculateConfidence(remote).type # "none"

\* the mousemove events that had arrived when _analyzeMouseMovement last ran
AnalysedEvents ==
    Cardinality({i \in 1..Len(history.dispatched) :
                   history.dispatched[i].performance <= remote.lastAnalysisTime})

\* the consecutive triples among the first n events that pass the area test
CollinearTriples(n) ==
    Cardinality({i \in 3..n :
                   TwiceArea(history.dispatched[i - 2], history.dispatched[i - 1],
                             history.dispatched[i]) < 4})

\* C26: each consecutive triple of mouse points is counted exactly once: when
\* an analysis has run, straightLineCount + naturalMovementCount is the number
\* of consecutive triples among the points received up to it and
\* straightLineCount the number of collinear ones, whatever the timing of the
\* analyses relative to the 20-point window
C26_EachTripleCountedOnce ==
    remote.lastAnalysisTime > 0 =>
        /\ remote.straightLineCount + remote.naturalMovementCount
               = AnalysedEvents - 2
        /\ remote.straightLineCount = CollinearTriples(AnalysedEvents)

\* the status text of _updateScoreIndicator
ScoreIndicatorStatus(score) ==
    IF Lt(score, humanScoreThreshold) THEN "Likely human"
    ELSE IF Lt(score, suspiciousScoreThreshold) THEN "Some unusual patterns"
    ELSE IF Lt(score, botScoreThreshold) THEN "Suspicious patterns detected"
    ELSE "Highly likely to be a bot"

\* the 'Bot Detection' finding of createSummaryTab (botScore is
\* overallScore || 0, and NaN is falsy)
SummaryTabStatus(overallScore) ==
    LET botScore == IF IsNaN(overallScore) THEN Zero ELSE overallScore
    IN  IF Gt(botScore, Rat(7, 10)) THEN "Likely bot"
        ELSE IF Gt(botScore, Rat(3, 10)) THEN "Suspicious behavior"
        ELSE "Likely human"

\* the severity a label stands for: human, suspicious, bot
SeverityBucket(label) ==
    CASE label = "Likely human" -> 0
      [] label \in {"Some unusual patterns", "Suspicious patterns detected",
                    "Suspicious behavior"} -> 1
      [] label \in {"Highly likely to be a bot", "Likely bot"} -> 2

\* C27: the four places that turn overallScore into a label put every score,
\* the boundary values 0.3, 0.5 and 0.7 included, in the same severity bucket
C27_LabelsAgree ==
    /\ mouseData.movements >= minimumSamples
    /\ detectionScores.overallScore = _calculateOverallScore(detectionScores)
    => \E bucket \in {SeverityBucket(
                        _getBotStatusLabel(mouseData, detectionScores.overallScore))} :
         /\ SeverityBucket(ScoreIndicatorStatus(detectionScores.overallScore)) = bucket
         /\ SeverityBucket(_updateUI(detectionScores).scoreLabel) = bucket
         /\ SeverityBucket(SummaryTabStatus(detectionScores.overallScore)) = bucket

(***************************************************************************)
(* APIFingerprintDetector: lifecycle of the event-timing monitor           *)
(***************************************************************************)
MaxInputEvents == 12     \* input events in one behaviour of SpecMonitor
MonitorHorizon == 9000   \* ms of page life in one behaviour of SpecMonitor
idleStep == 2500         \* ms that pass at a time while the visitor is idle

\* browsers with and without PerformanceObserver support for 'event' entries
MonitorBrowsers == {[eventTimingSupported |-> TRUE], [eventTimingSupported |-> FALSE]}

\* what the visitor does, over and over: the event, the duration and the
\* input delay the browser measures for it, the time since the last event (ms)
InputScripts ==
    {<<[name |-> <<"click">>, duration |-> 16, delay |-> 0, dt |-> 500]>>,
     <<[name |-> <<"key", "down">>, duration |-> 16, delay |-> 2, dt |-> 1000],
       [name |-> <<"key", "up">>, duration |-> 24, delay |-> 1, dt |-> 200]>>,
     <<[name |-> <<"pointer", "down">>, duration |-> 24, delay |-> 4, dt |-> 2000],
       [name |-> <<"click">>, duration |-> 16, delay |-> 1, dt |-> 100]>>}

\* the page before `new APIFingerprintDetector().detect()`
InitMonitor ==
    /\ mouseData = InitMouseData
    /\ suspiciousPatterns = InitSuspiciousPatterns
    /\ detectionScores = InitDetectionScores
    /\ botData = [isHeadlessBrowser |-> "undefined", isFakeUserAgent |-> "undefined",
                  hasUnusualResolution |-> "undefined"]
    /\ permissionsProbe = [status |-> "none"]
    /\ display = [scoreCircle |-> <<>>, scoreLabel |-> "none", status |-> "none",
                  botStatus |-> "none", headlessIndicator |-> "none"]
    /\ env \in MonitorBrowsers
    /\ now = timeOrigin
    /\ \E script \in InputScripts : stream = [events |-> 0, pattern |-> script]
    /\ interaction = InitInteractionData
    /\ remote = InitRemote
    /\ history = [dispatched |-> <<>>, moved |-> <<>>]
    /\ eventTiming = InitEventTiming
    /\ uncaught = "none"

\* detect() reaches _detectPerformanceEventTiming()
StartEventTimingMonitor ==
    /\ ~eventTiming.started
    /\ eventTiming' =
         _detectPerformanceEventTiming(eventTiming, env.eventTimingSupported, now)
    /\ UNCHANGED <<mouseData, suspiciousPatterns, detectionScores, botData,
                   permissionsProbe, display, env, now, stream, interaction,
                   remote, history, uncaught>>

\* the PerformanceEventTiming entry of an input event that started at
\* performance.now() = t
EntryOf(g, t) ==
    [name |-> g.name, duration |-> g.duration, startTime |-> t,
     processingStart |-> t + g.delay]

\* the visitor acts: the browser handles an input event and, where the API
\* exists, keeps its entry for the observer (entries from before observe()
\* are kept too, the observer asks for them with buffered: true) unless the
\* observer has disconnected
InputEvent ==
    /\ stream.events < MaxInputEvents
    /\ \E g \in {GestureAt(stream.pattern, stream.events + 1)} :
         /\ now + g.dt <= timeOrigin + MonitorHorizon
         /\ now' = now + g.dt
         /\ eventTiming' =
              IF env.eventTimingSupported
                 /\ (~eventTiming.started \/ eventTiming.observing)
              THEN [eventTiming EXCEPT
                      !.queued = Append(@, EntryOf(g, PerformanceNow(now + g.dt)))]
              ELSE eventTiming
    /\ stream' = [stream EXCEPT !.events = @ + 1]
    /\ UNCHANGED <<mouseData, suspiciousPatterns, detectionScores, botData,
                   permissionsProbe, display, env, interaction, remote, history,
                   uncaught>>

\* the browser calls the PerformanceObserver callback with the queued entries
DeliverEntries ==
    /\ eventTiming.observing
    /\ eventTiming.queued # <<>>
    /\ eventTiming' = ObserverCallback(eventTiming)
    /\ UNCHANGED <<mouseData, suspiciousPatterns, detectionScores, botData,
                   permissionsProbe, display, env, now, stream, interaction,
                   remote, history, uncaught>>

\* the setTimeout callback runs, at the monitoring duration or later
MonitorTimeout ==
    /\ eventTiming.isMonitoring
    /\ now >= eventTiming.deadline
    /\ eventTiming' = MonitoringTimeout(eventTiming)
    /\ UNCHANGED <<mouseData, suspiciousPatterns, detectionScores, botData,
                   permissionsProbe, display, env, now, stream, interaction,
                   remote, history, uncaught>>

\* time passes without input
Idle ==
    /\ now + idleStep <= timeOrigin + MonitorHorizon
    /\ now' = now + idleStep
    /\ UNCHANGED <<mouseData, suspiciousPatterns, detectionScores, botData,
                   permissionsProbe, display, env, stream, listeners, uncaught>>

NextMonitor ==
    \/ StartEventTimingMonitor
    \/ InputEvent
    \/ DeliverEntries
    \/ MonitorTimeout
    \/ Idle

SpecMonitor == InitMonitor /\ [][NextMonitor]_vars

\* the timer of the monitor has fired
MonitoringOver ==
    eventTiming.started /\ eventTiming.supported /\ ~eventTiming.isMonitoring

SegmentAngle(md, i) ==
    Atan2Deg(md.positions[i + 1].y - md.positions[i].y,
             md.positions[i + 1].x - md.positions[i].x)

\* the indices both loops visit: i = 1 .. angles.length - 1
VisitedIndices(md) == 1..(Len(md.angles) - 1)

\* C29: at every evaluation, for every index i the pattern analysis visits,
\* angles[i] is the angle of the segment positions[i-1] -> positions[i] whose
\* distance (and speed) the loop computes, also after events that derived no
\* angle and after the window has evicted samples
C29_AngleBelongsToSegment ==
    mouseData.movements >= minimumSamples =>
        \A i \in VisitedIndices(mouseData) :
            /\ SegmentDistance(mouseData, i) > 0
            /\ mouseData.angles[i + 1] = SegmentAngle(mouseData, i)


\* C30: in every reachable state of RemoteDesktopDetector, results.type =
\* 'kvm' implies results.kvmIndicators.detected = true: once a KVM-related
\* GPU has been found, later keyboard or mouse-jitter updates do not retract
\* the detection while the type stays 'kvm'
C30_KvmTypeImpliesDetected ==
    remote.type = "kvm" => remote.kvmIndicators.detected

=============================================================================
